---- MODULE Spec2Model ----
(***************************************************************************)
(* A model of the preflight analysis pipeline:                             *)
(*   discover (buildFileEntry) -> analyze (runPatternRules,                *)
(*   runFrontmatterRules, runAstRules) -> deduplicate -> calculateScore.   *)
(*                                                                         *)
(* Text is a sequence of one-character strings; positions are 0-based as   *)
(* in the source (String.prototype.indexOf, RegExp.lastIndex, slice).      *)
(***************************************************************************)
EXTENDS Integers, Sequences, FiniteSets, TLC

VARIABLES
    files,            \* FileEntry[] handed to analyze
    rules,            \* Rule[] handed to analyze
    grammars,         \* languages whose grammar artifact can be loaded
    patternFindings,  \* result of runPatternRules
    fmFindings,       \* result of runFrontmatterRules
    astFindings,      \* result of runAstRules
    findings,         \* the list returned by analyze / the input of deduplicate
    deduped,          \* the list returned by deduplicate
    score,            \* the number returned by calculateScore
    raised,           \* TRUE once an exception has propagated out of analyze
    parserCache,      \* the AST analyzer's module-level cache
    run,              \* 1 for the first scan of the process, 2 for the second
    firstRun,         \* the deduplicated list of the first scan
    scanInput,        \* what discoverFiles is called on: disk, target, options
    engine,           \* the syntax-tree engine step by step: invocations, counters
    scan,             \* one matchRegexInRegion call step by step
    pc                \* position in the pipeline

vars == <<files, rules, grammars, patternFindings, fmFindings, astFindings,
          findings, deduped, score, raised, parserCache, run, firstRun,
          scanInput, engine, scan, pc>>

(***************************************************************************)
(* Bounds of the model.                                                    *)
(***************************************************************************)
MaxBodyLines == 3
MaxFindings == 3
MaxScoreLen == 7

(***************************************************************************)
(* Generic helpers.                                                        *)
(***************************************************************************)
NL == "\n"

Min(S) == CHOOSE x \in S : \A y \in S : x <= y

Max2(a, b) == IF a >= b THEN a ELSE b

Min2(a, b) == IF a <= b THEN a ELSE b

\* s.slice(a, b) with 0-based, end-exclusive, clamped positions.
Slice(s, a, b) == SubSeq(s, Max2(a, 0) + 1, Min2(b, Len(s)))

StartsWithAt(hay, needle, i) ==
    /\ i >= 0
    /\ i + Len(needle) <= Len(hay)
    /\ SubSeq(hay, i + 1, i + Len(needle)) = needle

\* hay.indexOf(needle, from): smallest position >= from, or -1.
IndexOfFrom(hay, needle, from) ==
    LET start == Min2(Max2(from, 0), Len(hay))
        cands == {i \in start..Len(hay) : StartsWithAt(hay, needle, i)}
    IN  IF cands = {} THEN -1 ELSE Min(cands)

IndexOf(hay, needle) == IndexOfFrom(hay, needle, 0)

\* Number of newline characters among the first n characters of s.
CountNL(s, n) == Cardinality({i \in 1..Min2(n, Len(s)) : s[i] = NL})

\* s.split('\n'): the lines of s (always at least one).
RECURSIVE SplitLines(_)
SplitLines(s) ==
    LET i == IndexOf(s, <<NL>>)
    IN  IF i = -1 THEN <<s>>
        ELSE <<Slice(s, 0, i)>> \o SplitLines(Slice(s, i + 1, Len(s)))

\* lines.join('\n')
RECURSIVE JoinLines(_)
JoinLines(ls) ==
    IF Len(ls) = 0 THEN <<>>
    ELSE IF Len(ls) = 1 THEN ls[1]
    ELSE ls[1] \o <<NL>> \o JoinLines(Tail(ls))

RECURSIVE Flatten(_)
Flatten(ss) == IF Len(ss) = 0 THEN <<>> ELSE ss[1] \o Flatten(Tail(ss))

(***************************************************************************)
(* utils: line and column helpers.                                         *)
(***************************************************************************)
getLineNumber(text, position) == CountNL(text, position) + 1

\* The column counted from 0.
getColumnNumberZeroBased(text, position) ==
    LET p    == Min2(position, Len(text))
        nls  == {i \in 0..(p - 1) : text[i + 1] = NL}
        last == IF nls = {} THEN -1 ELSE CHOOSE i \in nls : \A j \in nls : j <= i
    IN  position - last - 1

\* position - upTo.lastIndexOf('\n')
getColumnNumber(text, position) ==
    LET p    == Min2(position, Len(text))
        nls  == {i \in 0..(p - 1) : text[i + 1] = NL}
        last == IF nls = {} THEN -1 ELSE CHOOSE i \in nls : \A j \in nls : j <= i
    IN  position - last

(***************************************************************************)
(* utils: front matter detection by FRONTMATTER_REGEX: the content opens   *)
(* with a delimiter line, the lazy first group ends at the first newline   *)
(* followed by three dashes at or after position 4, and one newline after  *)
(* the closing delimiter is consumed when present.                         *)
(***************************************************************************)
Dashes == <<"-", "-", "-">>

parseFrontmatter(content) ==
    LET close == IF StartsWithAt(content, Dashes \o <<NL>>, 0)
                 THEN IndexOfFrom(content, <<NL>> \o Dashes, 4)
                 ELSE -1
    IN  IF close = -1
        THEN [hasFrontmatter |-> FALSE, rawFrontmatter |-> <<>>, body |-> <<>>]
        ELSE LET after == close + 4
                 bodyAt == IF StartsWithAt(content, <<NL>>, after)
                           THEN after + 1 ELSE after
             IN  [hasFrontmatter |-> TRUE,
                  rawFrontmatter |-> Slice(content, 4, close),
                  body           |-> Slice(content, bodyAt, Len(content))]

ExtMd == <<".", "m", "d">>

ExtPy == <<".", "p", "y">>

ExtSh == <<".", "s", "h">>

ExtJs == <<".", "j", "s">>

\* LANGUAGE_MAP[extension]; "" stands for undefined.
getLanguage(extension) ==
    CASE extension = ExtPy -> "python"
      [] extension = ExtSh -> "bash"
      [] extension = ExtJs -> "javascript"
      [] OTHER -> ""

(***************************************************************************)
(* discover: the YAML parser applied to the raw front matter, for block    *)
(* mappings: one "key: value" or "key:" entry per line, a "key:" entry     *)
(* holding the deeper-indented block that follows it.  Values are tagged:  *)
(*   [t |-> "str", v |-> text], [t |-> "bool", v |-> b],                   *)
(*   [t |-> "map", v |-> entries [key, value] in order], [t |-> "null"],   *)
(*   [t |-> "arr", v |-> elements in order] for a flow sequence          *)
(*   "[a, b]" of plain scalars, [t |-> "num", v |-> n] for a number (the   *)
(*   length of an array), and [t |-> "undef"] for JavaScript's undefined.  *)
(* A document of plain lines is one string scalar (lines folded with a     *)
(* space); an empty document is null; a plain line among entries, an entry *)
(* with a value and a nested block, or a repeated key is a parse error.    *)
(***************************************************************************)
YamlTrue == <<"t", "r", "u", "e">>

YamlFalse == <<"f", "a", "l", "s", "e">>

YamlNull == [t |-> "null"]

YamlPlain(text) ==
    IF text = <<>> THEN YamlNull
    ELSE IF text = YamlTrue THEN [t |-> "bool", v |-> TRUE]
    ELSE IF text = YamlFalse THEN [t |-> "bool", v |-> FALSE]
    ELSE [t |-> "str", v |-> text]

RECURSIVE Indent(_)
Indent(line) ==
    IF line # <<>> /\ line[1] = " " THEN 1 + Indent(Tail(line)) ELSE 0

Trim(line) == SubSeq(line, Indent(line) + 1, Len(line))

RECURSIVE SplitCommas(_)
SplitCommas(s) ==
    LET i == IndexOf(s, <<",">>)
    IN  IF i = -1 THEN <<s>>
        ELSE <<Slice(s, 0, i)>> \o SplitCommas(Slice(s, i + 1, Len(s)))

IsFlowSequence(text) ==
    Len(text) >= 2 /\ text[1] = "[" /\ text[Len(text)] = "]"

YamlScalar(text) ==
    IF IsFlowSequence(text)
    THEN LET inner == Slice(text, 1, Len(text) - 1)
             items == IF inner = <<>> THEN <<>> ELSE SplitCommas(inner)
         IN  [t |-> "arr",
              v |-> [k \in 1..Len(items) |-> YamlPlain(Trim(items[k]))]]
    ELSE YamlPlain(text)

IsKvLine(line) == IndexOf(line, <<":", " ">>) >= 1

IsKeyOnlyLine(line) ==
    Len(line) >= 2 /\ line[Len(line)] = ":" /\ IndexOf(line, <<":", " ">>) = -1

KvKey(line) == Slice(line, 0, IndexOf(line, <<":", " ">>))

KvValue(line) == Slice(line, IndexOf(line, <<":", " ">>) + 2, Len(line))

RECURSIVE Ascending(_)
Ascending(S) == IF S = {} THEN <<>> ELSE <<Min(S)>> \o Ascending(S \ {Min(S)})

RECURSIVE FoldLines(_)
FoldLines(ls) ==
    IF Len(ls) = 1 THEN Trim(ls[1])
    ELSE Trim(ls[1]) \o <<" ">> \o FoldLines(Tail(ls))

\* The block mapping held by lines lo..hi, whose first line sets the indent.
RECURSIVE YamlBlock(_, _, _)
YamlBlock(ls, lo, hi) ==
    LET ind      == Indent(ls[lo])
        heads    == {i \in lo..hi : Indent(ls[i]) = ind}
        EndOf(h) == Min({i - 1 : i \in {j \in heads : j > h}} \cup {hi})
        Entry(h) ==
            LET t == Trim(ls[h])
            IN  IF IsKvLine(t)
                THEN [ok |-> EndOf(h) = h, key |-> KvKey(t),
                      value |-> YamlScalar(KvValue(t))]
                ELSE IF IsKeyOnlyLine(t)
                THEN IF EndOf(h) > h
                     THEN LET sub == YamlBlock(ls, h + 1, EndOf(h))
                          IN  [ok |-> sub.ok, key |-> Slice(t, 0, Len(t) - 1),
                               value |-> sub.value]
                     ELSE [ok |-> TRUE, key |-> Slice(t, 0, Len(t) - 1),
                           value |-> YamlNull]
                ELSE [ok |-> FALSE, key |-> <<>>, value |-> YamlNull]
        order    == Ascending(heads)
        entries  == [k \in 1..Len(order) |-> Entry(order[k])]
    IN  IF \/ \E i \in lo..hi : Indent(ls[i]) < ind
           \/ \E k \in 1..Len(entries) : ~entries[k].ok
           \/ \E k, l \in 1..Len(entries) : k # l /\ entries[k].key = entries[l].key
        THEN [ok |-> FALSE, value |-> YamlNull]
        ELSE [ok |-> TRUE,
              value |-> [t |-> "map",
                         v |-> [k \in 1..Len(entries) |->
                                  [key |-> entries[k].key,
                                   value |-> entries[k].value]]]]

parseYaml(raw) ==
    LET ls == SplitLines(raw)
    IN  IF raw = <<>> THEN [ok |-> TRUE, value |-> YamlNull]
        ELSE IF \A i \in 1..Len(ls) :
                   ~IsKvLine(Trim(ls[i])) /\ ~IsKeyOnlyLine(Trim(ls[i]))
        THEN [ok |-> TRUE, value |-> YamlScalar(FoldLines(ls))]
        ELSE YamlBlock(ls, 1, Len(ls))

(***************************************************************************)
(* discover: buildFileEntry, from the point where the content is read.     *)
(* name is the path relative to the scan root.  hasParsed says whether     *)
(* entry.frontmatter was assigned.                                         *)
(***************************************************************************)
ScanRoot == <<"/", "r">>

\* path.extname: from the last dot of the base name, unless the base name
\* starts with that dot or has none.
extname(name) ==
    LET slashes == {i \in 1..Len(name) : name[i] = "/"}
        base    == IF slashes = {} THEN name
                   ELSE SubSeq(name, Min({-i : i \in slashes}) * (-1) + 1, Len(name))
        dots    == {i \in 1..Len(base) : base[i] = "."}
        last    == IF dots = {} THEN 0 ELSE Min({-i : i \in dots}) * (-1)
    IN  IF last <= 1 THEN <<>> ELSE SubSeq(base, last, Len(base))

buildFileEntry(name, content) ==
    LET fm  == parseFrontmatter(content)
        ext == extname(name)
        y   == parseYaml(fm.rawFrontmatter)
    IN  [path           |-> ScanRoot \o <<"/">> \o name,
         relativePath   |-> name,
         content        |-> content,
         extension      |-> ext,
         hasFrontmatter |-> fm.hasFrontmatter,
         language       |-> getLanguage(ext),
         rawFrontmatter |-> fm.rawFrontmatter,
         body           |-> fm.body,
         hasParsed      |-> fm.hasFrontmatter /\ y.ok,
         frontmatter    |-> IF fm.hasFrontmatter /\ y.ok THEN y.value
                            ELSE YamlNull]

(***************************************************************************)
(* discover: discoverFiles and the checks at the head of buildFileEntry.   *)
(* The disk is a sequence of nodes below the scan root, each               *)
(*   [rel, lstat, real, size, content]:                                    *)
(* rel is the path relative to the scan root, lstat is "file" or "link",   *)
(* real is the path fs.realpath resolves to (empty when it throws, as for  *)
(* a dangling link), size is lstat's size.  A node with lstat "file" and a *)
(* real path outside the root is a regular file below a linked directory.  *)
(* The scan root is its own real path and lies directly below "/".         *)
(***************************************************************************)
MAX_FILE_SIZE == 1048576

SkillsMd == <<"s", "k", "i", "l", "l", "s", ".", "m", "d">>

SkillMd == <<"s", "k", "i", "l", "l", ".", "m", "d">>

\* The set without the singular name.
SkillsFilesPluralOnly == {SkillsMd}

SKILLS_FILES == {SkillsMd, SkillMd}

ExtPng == <<".", "p", "n", "g">>

ExtLock == <<".", "l", "o", "c", "k">>

\* Two of the extensions of SKIP_EXTENSIONS.
SKIP_EXTENSIONS == {ExtPng, ExtLock}

shouldSkipFile(extension) == extension \in SKIP_EXTENSIONS

LowerOf(c) ==
    CASE c = "S" -> "s" [] c = "K" -> "k" [] c = "I" -> "i" [] c = "L" -> "l"
      [] c = "M" -> "m" [] c = "D" -> "d" [] c = "R" -> "r" [] c = "E" -> "e"
      [] c = "A" -> "a" [] OTHER -> c

toLowerCase(s) == [i \in 1..Len(s) |-> LowerOf(s[i])]

RECURSIVE SplitSlash(_)
SplitSlash(s) ==
    LET i == IndexOf(s, <<"/">>)
    IN  IF i = -1 THEN <<s>>
        ELSE <<Slice(s, 0, i)>> \o SplitSlash(Slice(s, i + 1, Len(s)))

basename(p) == SplitSlash(p)[Len(SplitSlash(p))]

\* path.relative(from, to) for a from directly below "/" and an absolute to.
relative(from, to) ==
    IF to = from THEN <<>>
    ELSE IF StartsWithAt(to, from \o <<"/">>, 0)
    THEN Slice(to, Len(from) + 1, Len(to))
    ELSE <<".", ".">> \o to

DistDir == <<"d", "i", "s", "t">>

\* glob('**/*', { ignore, nodir: true, dot: false }): the nodes outside the
\* ignored directories (of DEFAULT_IGNORE the model keeps '**/dist/**') and
\* without a path segment that starts with a dot, in disk order.  Paths
\* below a linked directory are listed.
GlobListed(node) ==
    LET segs == SplitSlash(node.rel)
    IN  /\ \A k \in 1..(Len(segs) - 1) : segs[k] # DistDir
        /\ \A k \in 1..Len(segs) : segs[k] = <<>> \/ segs[k][1] # "."

\* The checks of buildFileEntry that return null before the file is read.
buildFileEntryAccepts(node, scanRootReal, onlySkills) ==
    /\ ~(onlySkills /\ toLowerCase(basename(node.rel)) \notin SKILLS_FILES)
    /\ ~shouldSkipFile(extname(node.rel))
    /\ node.lstat # "link"
    /\ node.lstat = "file" /\ node.size <= MAX_FILE_SIZE
    /\ node.real # <<>>
    /\ ~StartsWithAt(relative(scanRootReal, node.real), <<".", ".">>, 0)

\* input.target = 0: the target is the scan root; input.target = k: the
\* target is the file disk[k], a direct child of the scan root (fs.stat
\* follows links and throws on a dangling one).
discoverFiles(input) ==
    LET Candidate(node) ==
            IF input.target = 0 THEN GlobListed(node)
            ELSE node = input.disk[input.target] /\ node.real # <<>>
        Accepted(node) == buildFileEntryAccepts(node, ScanRoot, input.onlySkills)
        kept == SelectSeq(SelectSeq(input.disk, Candidate), Accepted)
    IN  [k \in 1..Len(kept) |-> buildFileEntry(kept[k].rel, kept[k].content)]

NoScanInput == [disk |-> <<>>, target |-> 0, onlySkills |-> TRUE]

(***************************************************************************)
(* Regular expressions.  A regex source is one of                          *)
(*   [kind |-> "lit",  text |-> s]   the literal s (non-empty),            *)
(*   [kind |-> "star", text |-> s]   (?:s)* : zero or more copies of s,    *)
(*   [kind |-> "bad",  text |-> s]   a source RegExp() rejects.            *)
(* MatchLen is the length of the match starting exactly at position i, or  *)
(* -1; the alphabet has no letter case and the sources no anchors, so the  *)
(* i and m flags change nothing.                                           *)
(***************************************************************************)
RegexValid(re) == re.kind # "bad"

\* The length of the longest run of copies of s in text at position i.
StarLen(s, text, i) ==
    LET most == (Len(text) - i) \div Len(s)
        stop == {k \in 0..(most - 1) : ~StartsWithAt(text, s, i + k * Len(s))}
    IN  Len(s) * (IF stop = {} THEN most ELSE Min(stop))

MatchLen(re, text, i) ==
    IF i < 0 \/ i > Len(text) THEN -1
    ELSE IF re.kind = "lit"
    THEN (IF StartsWithAt(text, re.text, i) THEN Len(re.text) ELSE -1)
    ELSE IF re.kind = "star" THEN StarLen(re.text, text, i)
    ELSE -1

NoMatch == [index |-> -1, len |-> 0]

\* regex.exec(text) of a global regex whose lastIndex is lastIndex.
RegexExec(re, text, lastIndex) ==
    LET cands == {i \in lastIndex..Len(text) : MatchLen(re, text, i) >= 0}
    IN  IF cands = {} THEN NoMatch
        ELSE [index |-> Min(cands), len |-> MatchLen(re, text, Min(cands))]

\* new RegExp(src, flags).test(text), reporting a constructor error as FALSE
\* where the caller catches it.
RegexTest(re, text) ==
    /\ RegexValid(re)
    /\ \E i \in 0..Len(text) : MatchLen(re, text, i) >= 0

(***************************************************************************)
(* The markdown parser (unified + remark-parse) as far as the engine uses  *)
(* it: the values of the fenced code nodes of a source, in document order. *)
(* A line opening with the fence (three tildes) opens a block; a line that *)
(* is exactly the fence closes it; the end of the source closes an open    *)
(* block.  The value is the block's lines joined by newlines.              *)
(***************************************************************************)
Fence == <<"~", "~", "~">>

SourceLines(source) ==
    LET ls == SplitLines(source)
    IN  IF ls[Len(ls)] = <<>> THEN SubSeq(ls, 1, Len(ls) - 1) ELSE ls

RECURSIVE ScanBlocks(_, _, _, _, _)
ScanBlocks(ls, i, inBlock, cur, acc) ==
    IF i > Len(ls)
    THEN (IF inBlock THEN Append(acc, JoinLines(cur)) ELSE acc)
    ELSE IF inBlock
    THEN (IF ls[i] = Fence
          THEN ScanBlocks(ls, i + 1, FALSE, <<>>, Append(acc, JoinLines(cur)))
          ELSE ScanBlocks(ls, i + 1, TRUE, Append(cur, ls[i]), acc))
    ELSE (IF StartsWithAt(ls[i], Fence, 0)
          THEN ScanBlocks(ls, i + 1, TRUE, <<>>, acc)
          ELSE ScanBlocks(ls, i + 1, FALSE, <<>>, acc))

CodeNodeValues(source) == ScanBlocks(SourceLines(source), 1, FALSE, <<>>, <<>>)

(***************************************************************************)
(* pattern.ts: file exclusion.  A glob is the double star (any path), the  *)
(* single star (any path of one segment) or a literal path.                *)
(***************************************************************************)
minimatch(path, glob) ==
    IF glob = <<"*", "*">> THEN TRUE
    ELSE IF glob = <<"*">>
    THEN Len(path) > 0 /\ \A i \in 1..Len(path) : path[i] # "/"
    ELSE glob = path

shouldExcludeFile(file, excludePatterns) ==
    \E i \in 1..Len(excludePatterns) :
        \/ minimatch(file.relativePath, excludePatterns[i])
        \/ minimatch(file.path, excludePatterns[i])

(***************************************************************************)
(* pattern.ts: content region resolution.                                  *)
(***************************************************************************)
Region(content, offset) == [content |-> content, offset |-> offset]

OrZero(offset) == IF offset # -1 THEN offset ELSE 0

RECURSIVE BlockRegions(_, _, _, _)
BlockRegions(file, values, sourceOffset, k) ==
    IF k > Len(values) THEN <<>>
    ELSE (IF values[k] # <<>>
          THEN <<Region(values[k],
                        OrZero(IndexOfFrom(file.content, values[k],
                                           OrZero(sourceOffset))))>>
          ELSE <<>>)
         \o BlockRegions(file, values, sourceOffset, k + 1)

resolveScriptsRegions(file) ==
    LET source       == IF file.hasFrontmatter THEN file.body ELSE file.content
        sourceOffset == IF file.hasFrontmatter /\ file.body # <<>>
                        THEN IndexOf(file.content, file.body) ELSE 0
    IN  (IF file.extension = ExtMd
         THEN BlockRegions(file, CodeNodeValues(source), sourceOffset, 1)
         ELSE <<>>)
        \o (IF file.language # "" THEN <<Region(file.content, 0)>> ELSE <<>>)

RegionsOf(file, loc) ==
    CASE loc = "all" -> <<Region(file.content, 0)>>
      [] loc = "frontmatter" ->
           IF file.hasFrontmatter /\ file.rawFrontmatter # <<>>
           THEN <<Region(file.rawFrontmatter,
                         OrZero(IndexOf(file.content, file.rawFrontmatter)))>>
           ELSE <<>>
      [] loc = "body" ->
           LET body == IF file.hasFrontmatter THEN file.body ELSE file.content
           IN  IF body # <<>>
               THEN <<Region(body, OrZero(IndexOf(file.content, body)))>>
               ELSE <<>>
      [] loc = "scripts" -> resolveScriptsRegions(file)
      [] OTHER -> <<>>

getContentRegions(file, rule) ==
    LET include == IF rule.hasInclude THEN rule.include ELSE <<"all">>
    IN  Flatten([k \in 1..Len(include) |-> RegionsOf(file, include[k])])

(***************************************************************************)
(* Findings.  Of a Finding the model keeps the rule id, the severity, the  *)
(* message, the file identifier, the location and the snippet.             *)
(***************************************************************************)
SnippetMax == 200

MessageMax == 100

Placeholder == <<"{", "m", "a", "t", "c", "h", "}">>

\* The expansion of a replacement string by String.prototype.replace for a
\* regex without capture groups: $$ is a dollar sign, $& the matched
\* substring, $' the text after the match, and any other character (a
\* dollar followed by a digit included) stands for itself.  The form that
\* inserts the text before the match is written with a backquote, a
\* character the texts of the model never contain.
RECURSIVE ConcatRange(_, _, _)
ConcatRange(ss, lo, hi) ==
    IF lo > hi THEN <<>>
    ELSE IF lo = hi THEN ss[lo]
    ELSE LET mid == (lo + hi) \div 2
         IN  ConcatRange(ss, lo, mid) \o ConcatRange(ss, mid + 1, hi)

\* A dollar sign at k opens a two-character form iff it stands at an even
\* distance from the start of its run of dollar signs (the forms are read
\* left to right, and only a dollar sign can be both the second character
\* of one form and the first of another).
OpensForm(replacement, k) ==
    /\ replacement[k] = "$"
    /\ k < Len(replacement)
    /\ replacement[k + 1] \in {"$", "&", "'"}
    /\ LET dollars == {j \in 1..k : \A l \in j..k : replacement[l] = "$"}
       IN  (k - Min(dollars)) % 2 = 0

Expand(replacement, matched, after) ==
    LET Piece(k) ==
            IF OpensForm(replacement, k)
            THEN (CASE replacement[k + 1] = "$" -> <<"$">>
                    [] replacement[k + 1] = "&" -> matched
                    [] OTHER -> after)
            ELSE IF k > 1 /\ OpensForm(replacement, k - 1) THEN <<>>
            ELSE <<replacement[k]>>
    IN  ConcatRange([k \in 1..Len(replacement) |-> Piece(k)], 1, Len(replacement))

\* template.replace(/\{match\}/g, replacement), scanning from position i.
RECURSIVE ReplaceMatch(_, _, _)
ReplaceMatch(template, replacement, i) ==
    IF i >= Len(template) THEN <<>>
    ELSE IF StartsWithAt(template, Placeholder, i)
    THEN Expand(replacement, Placeholder,
                Slice(template, i + Len(Placeholder), Len(template)))
         \o ReplaceMatch(template, replacement, i + Len(Placeholder))
    ELSE <<template[i + 1]>> \o ReplaceMatch(template, replacement, i + 1)

Finding(rule, file, startLine, endLine, startColumn, text) ==
    [ruleId      |-> rule.id,
     severity    |-> rule.severity,
     message     |-> ReplaceMatch(rule.message, Slice(text, 0, MessageMax), 0),
     file        |-> file,
     startLine   |-> startLine,
     endLine     |-> endLine,
     startColumn |-> startColumn,
     snippet     |-> Slice(text, 0, SnippetMax)]

\* The finding of the frontmatter analyzer: line 2, column 1, the snippet
\* stored and substituted in full.
FmFinding(rule, file, snippet) ==
    [Finding(rule, file, 2, 2, 1, snippet) EXCEPT
        !.message = ReplaceMatch(rule.message, snippet, 0),
        !.snippet = snippet]

(***************************************************************************)
(* The context gate, as each engine tests it:                              *)
(*   new RegExp(rule.requiresContext, 'im').test(file.content)             *)
(* inside try/catch; kind "none" stands for an absent (or empty) gate.     *)
(***************************************************************************)
\* A gate that lets the rule through when its regex does not compile.
PatternGateOpenOnError(rule, file) ==
    \/ rule.requiresContext.kind = "none"
    \/ ~RegexValid(rule.requiresContext)
    \/ RegexTest(rule.requiresContext, file.content)

PatternGate(rule, file) ==
    \/ rule.requiresContext.kind = "none"
    \/ RegexTest(rule.requiresContext, file.content)

FmGate(rule, file) ==
    \/ rule.requiresContext.kind = "none"
    \/ RegexTest(rule.requiresContext, file.content)

AstGate(rule, file) ==
    \/ rule.requiresContext.kind = "none"
    \/ RegexTest(rule.requiresContext, file.content)

(***************************************************************************)
(* pattern.ts: matchRegexInRegion.  The state threaded through the loops   *)
(* is [findings, limitSet, raised]: the findings pushed so far, the rule   *)
(* ids recorded in matchedRulesForFile, and whether an exception escaped.  *)
(***************************************************************************)
\* No suppression at all.
NeverSuppressed(file, pattern, startLine) == FALSE

\* The matched line is suppressed when some excludePattern matches it.
Suppressed(file, pattern, startLine) ==
    LET lines       == SplitLines(file.content)
        matchedLine == IF startLine <= Len(lines) THEN lines[startLine] ELSE <<>>
    IN  \E e \in 1..Len(pattern.excludePatterns) :
            RegexTest(pattern.excludePatterns[e], matchedLine)

\* A scan that restarts one character after the start of each match.
AdvanceOverlapping(m) == m.index + 1

\* lastIndex as exec leaves it.
AdvanceNoBump(m) == m.index + m.len

\* lastIndex after a match: one past a zero-length match.
Advance(m) == IF m.len = 0 THEN m.index + 1 ELSE m.index + m.len

RECURSIVE ExecLoop(_, _, _, _, _, _)
ExecLoop(file, rule, pattern, region, lastIndex, st) ==
    LET m == RegexExec(pattern.regex, region.content, lastIndex)
    IN  IF m.index = -1 THEN st
        ELSE LET absolutePos == region.offset + m.index
                 matchText   == Slice(region.content, m.index, m.index + m.len)
                 startLine   == getLineNumber(file.content, absolutePos)
                 endLine     == getLineNumber(file.content, absolutePos + m.len)
                 startColumn == getColumnNumber(file.content, absolutePos)
                 f == Finding(rule, file.path, startLine, endLine, startColumn,
                              matchText)
             IN  IF Suppressed(file, pattern, startLine)
                 THEN ExecLoop(file, rule, pattern, region, Advance(m), st)
                 ELSE IF rule.perFileLimit
                 THEN [st EXCEPT !.findings = Append(@, f),
                                 !.limitSet = @ \cup {rule.id}]
                 ELSE ExecLoop(file, rule, pattern, region, Advance(m),
                               [st EXCEPT !.findings = Append(@, f)])

\* The match loop without the surrounding try/catch.
matchRegexInRegionNoCatch(file, rule, pattern, region, st) ==
    IF ~RegexValid(pattern.regex)
    THEN [st EXCEPT !.raised = TRUE]
    ELSE ExecLoop(file, rule, pattern, region, 0, st)

matchRegexInRegion(file, rule, pattern, region, st) ==
    IF ~RegexValid(pattern.regex)
    THEN st   \* new RegExp throws; the catch block swallows it
    ELSE ExecLoop(file, rule, pattern, region, 0, st)

(***************************************************************************)
(* matchRegexInRegion step by step: one iteration of the while loop per    *)
(* step, for the first pattern of the first rule on the first document.    *)
(* scan holds the region's index r, regex.lastIndex, the lastIndex the     *)
(* iteration started from (prev), the number of iterations whose exec      *)
(* returned a match, and the findings pushed.                              *)
(***************************************************************************)
NoScan == [r |-> 1, lastIndex |-> 0, prev |-> 0, iterations |-> 0,
           findings |-> <<>>]

ScanRegion == getContentRegions(files[1], rules[1])[scan.r]

ScanExec == RegexExec(rules[1].patterns[1].regex, ScanRegion.content,
                      scan.lastIndex)

ScanStartLine ==
    getLineNumber(files[1].content, ScanRegion.offset + ScanExec.index)

ScanFinding ==
    LET m           == ScanExec
        absolutePos == ScanRegion.offset + m.index
    IN  Finding(rules[1], files[1].path, ScanStartLine,
                getLineNumber(files[1].content, absolutePos + m.len),
                getColumnNumber(files[1].content, absolutePos),
                Slice(ScanRegion.content, m.index, m.index + m.len))

\* The loop is followed for two iterations more than a region has
\* positions.
ScanFollowed == scan.iterations <= Len(ScanRegion.content) + 2

\* exec returns a match on a suppressed line: lastIndex is bumped after an
\* empty match, and the loop continues.
ExecSuppressed ==
    /\ pc = "exec" /\ ScanFollowed
    /\ ScanExec.index # -1
    /\ Suppressed(files[1], rules[1].patterns[1], ScanStartLine)
    /\ scan' = [scan EXCEPT !.prev = scan.lastIndex,
                            !.lastIndex = Advance(ScanExec),
                            !.iterations = @ + 1]
    /\ UNCHANGED <<files, rules, grammars, patternFindings, fmFindings,
                   astFindings, findings, deduped, score, raised, parserCache,
                   run, firstRun, scanInput, engine, pc>>

\* exec returns a match that is reported: with a limit set the function
\* returns, otherwise lastIndex is bumped after an empty match.
ExecEmit ==
    /\ pc = "exec" /\ ScanFollowed
    /\ ScanExec.index # -1
    /\ ~Suppressed(files[1], rules[1].patterns[1], ScanStartLine)
    /\ scan' = [scan EXCEPT !.prev = scan.lastIndex,
                            !.lastIndex = IF rules[1].perFileLimit
                                          THEN ScanExec.index + ScanExec.len
                                          ELSE Advance(ScanExec),
                            !.iterations = @ + 1,
                            !.findings = Append(@, ScanFinding)]
    /\ pc' = IF rules[1].perFileLimit THEN "done" ELSE "exec"
    /\ UNCHANGED <<files, rules, grammars, patternFindings, fmFindings,
                   astFindings, findings, deduped, score, raised, parserCache,
                   run, firstRun, scanInput, engine>>

\* exec returns null: the loop ends.
ExecNull ==
    /\ pc = "exec"
    /\ ScanExec.index = -1
    /\ pc' = "done"
    /\ UNCHANGED <<files, rules, grammars, patternFindings, fmFindings,
                   astFindings, findings, deduped, score, raised, parserCache,
                   run, firstRun, scanInput, engine, scan>>

NextLoop == ExecSuppressed \/ ExecEmit \/ ExecNull

(***************************************************************************)
(* pattern.ts: runPatternRules.                                            *)
(***************************************************************************)
\* A limit that is recorded but never consulted.
NeverLimited(rule, st) == FALSE

Limited(rule, st) == rule.perFileLimit /\ rule.id \in st.limitSet

RECURSIVE RegionsLoop(_, _, _, _, _, _)
RegionsLoop(file, rule, pattern, regions, k, st) ==
    IF k > Len(regions) \/ st.raised \/ Limited(rule, st) THEN st
    ELSE RegionsLoop(file, rule, pattern, regions, k + 1,
                     matchRegexInRegion(file, rule, pattern, regions[k], st))

RECURSIVE PatternsLoop(_, _, _, _)
PatternsLoop(file, rule, j, st) ==
    IF j > Len(rule.patterns) \/ st.raised THEN st
    ELSE IF rule.patterns[j].type # "regex"
    THEN PatternsLoop(file, rule, j + 1, st)
    ELSE IF Limited(rule, st) THEN st
    ELSE PatternsLoop(file, rule, j + 1,
                      RegionsLoop(file, rule, rule.patterns[j],
                                  getContentRegions(file, rule), 1, st))

hasRegexPattern(rule) ==
    \E j \in 1..Len(rule.patterns) : rule.patterns[j].type = "regex"

PatternRuleSkipped(file, rule, st) ==
    \/ Limited(rule, st)
    \/ shouldExcludeFile(file, rule.exclude)
    \/ ~PatternGate(rule, file)

RECURSIVE PatternRulesLoop(_, _, _, _)
PatternRulesLoop(file, regexRules, i, st) ==
    IF i > Len(regexRules) \/ st.raised THEN st
    ELSE IF PatternRuleSkipped(file, regexRules[i], st)
    THEN PatternRulesLoop(file, regexRules, i + 1, st)
    ELSE PatternRulesLoop(file, regexRules, i + 1,
                          PatternsLoop(file, regexRules[i], 1, st))

RECURSIVE PatternFilesLoop(_, _, _, _)
PatternFilesLoop(fs, regexRules, f, st) ==
    IF f > Len(fs) \/ st.raised THEN st
    ELSE PatternFilesLoop(fs, regexRules, f + 1,
             PatternRulesLoop(fs[f], regexRules, 1,
                              [st EXCEPT !.limitSet = {}]))

Start == [findings |-> <<>>, limitSet |-> {}, raised |-> FALSE]

runPatternRules(fs, rs) ==
    PatternFilesLoop(fs, SelectSeq(rs, hasRegexPattern), 1, Start)

(***************************************************************************)
(* frontmatter analyzer: getNestedField and matchesCondition.              *)
(***************************************************************************)
Undefined == [t |-> "undef"]

DigitChars == <<"0", "1", "2", "3", "4", "5", "6", "7", "8", "9">>

\* The decimal rendering of a natural number inside a template literal.
RECURSIVE Decimal(_)
Decimal(n) ==
    IF n < 10 THEN <<DigitChars[n + 1]>>
    ELSE Decimal(n \div 10) \o <<DigitChars[(n % 10) + 1]>>

RECURSIVE SplitDots(_)
SplitDots(s) ==
    LET i == IndexOf(s, <<".">>)
    IN  IF i = -1 THEN <<s>>
        ELSE <<Slice(s, 0, i)>> \o SplitDots(Slice(s, i + 1, Len(s)))

ArrayLength == <<"l", "e", "n", "g", "t", "h">>

\* current[part] of an object: the value of the key, or for an array the
\* element at a decimal index or the length; undefined when there is none.
Member(current, part) ==
    IF current.t = "arr"
    THEN LET at == {i \in 1..Len(current.v) : Decimal(i - 1) = part}
         IN  IF part = ArrayLength THEN [t |-> "num", v |-> Len(current.v)]
             ELSE IF at = {} THEN Undefined ELSE current.v[Min(at)]
    ELSE LET hits == {i \in 1..Len(current.v) : current.v[i].key = part}
         IN  IF hits = {} THEN Undefined ELSE current.v[Min(hits)].value

\* typeof current !== 'object' || current === null ends the walk; maps and
\* arrays are objects.
RECURSIVE WalkParts(_, _, _)
WalkParts(current, parts, k) ==
    IF k > Len(parts) THEN current
    ELSE IF current.t \notin {"map", "arr"} THEN Undefined
    ELSE WalkParts(Member(current, parts[k]), parts, k + 1)

\* A lookup of the last path segment at the top level only.
getNestedFieldLeaf(obj, path) ==
    LET parts == SplitDots(path)
    IN  WalkParts(obj, <<parts[Len(parts)]>>, 1)

getNestedField(obj, path) == WalkParts(obj, SplitDots(path), 1)

\* value === other, for the tagged values of the model.
StrictEquals(a, b) ==
    /\ a.t = b.t
    /\ a.t \in {"str", "bool", "null", "num"}
    /\ (a.t = "null" \/ a.v = b.v)

Includes(hay, needle) == IndexOf(hay, needle) # -1

\* String(v) of a scalar.
StringOf(value) ==
    CASE value.t = "str"  -> value.v
      [] value.t = "bool" -> IF value.v THEN YamlTrue ELSE YamlFalse
      [] value.t = "num"  -> Decimal(value.v)
      [] value.t = "null" -> <<"n", "u", "l", "l">>
      [] OTHER -> <<"u", "n", "d", "e", "f", "i", "n", "e", "d">>

\* value.some((v) => String(v).includes(pattern.contains))
ArrayContains(value, needle) ==
    \E k \in 1..Len(value.v) : Includes(StringOf(value.v[k]), needle)

\* A condition field that is absent from the pattern has has<Field> FALSE.
matchesCondition(pattern, value) ==
    \/ /\ pattern.hasExists
       /\ IF pattern.exists THEN value.t # "undef" ELSE value.t = "undef"
    \/ /\ pattern.hasEquals
       /\ StrictEquals(value, pattern.equals)
    \/ /\ pattern.hasContains
       /\ \/ value.t = "str" /\ Includes(value.v, pattern.contains)
          \/ value.t = "arr" /\ ArrayContains(value, pattern.contains)
    \/ /\ pattern.hasMatches
       /\ value.t = "str"
       /\ RegexTest(pattern.matches, value.v)

\* JSON.stringify(value)
RECURSIVE JsonStringify(_)
JsonStringify(value) ==
    CASE value.t = "str"   -> <<"\"">> \o value.v \o <<"\"">>
      [] value.t = "bool"  -> IF value.v THEN YamlTrue ELSE YamlFalse
      [] value.t = "null"  -> <<"n", "u", "l", "l">>
      [] value.t = "undef" -> <<"u", "n", "d", "e", "f", "i", "n", "e", "d">>
      [] value.t = "num"   -> Decimal(value.v)
      [] value.t = "arr"   ->
           <<"[">> \o
           Flatten([i \in 1..Len(value.v) |->
                      (IF i > 1 THEN <<",">> ELSE <<>>) \o
                      JsonStringify(value.v[i])])
           \o <<"]">>
      [] OTHER ->
           <<"{">> \o
           Flatten([i \in 1..Len(value.v) |->
                      (IF i > 1 THEN <<",">> ELSE <<>>) \o <<"\"">> \o
                      value.v[i].key \o <<"\"", ":">> \o
                      JsonStringify(value.v[i].value)])
           \o <<"}">>

(***************************************************************************)
(* frontmatter analyzer: runFrontmatterRules.  The loop state is           *)
(* [findings, matched, raised].                                            *)
(***************************************************************************)
hasFmPattern(rule) ==
    \E j \in 1..Len(rule.patterns) : rule.patterns[j].type = "frontmatter"

FmStart == [findings |-> <<>>, matched |-> FALSE, raised |-> FALSE]

RECURSIVE FmPatternsLoop(_, _, _, _)
FmPatternsLoop(file, rule, j, st) ==
    IF j > Len(rule.patterns) THEN st
    ELSE IF rule.patterns[j].type # "frontmatter"
    THEN FmPatternsLoop(file, rule, j + 1, st)
    ELSE IF rule.perFileLimit /\ st.matched THEN st
    ELSE LET pattern == rule.patterns[j]
             value   == getNestedField(file.frontmatter, pattern.field)
             snippet == pattern.field \o <<":", " ">> \o JsonStringify(value)
         IN  IF matchesCondition(pattern, value)
             THEN FmPatternsLoop(file, rule, j + 1,
                      [st EXCEPT !.findings =
                                     Append(@, FmFinding(rule, file.path, snippet)),
                                 !.matched = TRUE])
             ELSE FmPatternsLoop(file, rule, j + 1, st)

RECURSIVE FmRulesLoop(_, _, _, _)
FmRulesLoop(file, fmRules, i, st) ==
    IF i > Len(fmRules) THEN st
    ELSE IF ~FmGate(fmRules[i], file)
    THEN FmRulesLoop(file, fmRules, i + 1, st)
    ELSE FmRulesLoop(file, fmRules, i + 1,
                     FmPatternsLoop(file, fmRules[i], 1,
                                    [st EXCEPT !.matched = FALSE]))

\* The front-matter engine without its test of file.frontmatter.
FrontmatterNeverFalsy(file) == FALSE

\* !file.frontmatter: absent, null or the empty string.
FrontmatterFalsy(file) ==
    \/ ~file.hasParsed
    \/ file.frontmatter.t = "null"
    \/ file.frontmatter.t = "str" /\ file.frontmatter.v = <<>>
    \/ file.frontmatter.t = "bool" /\ ~file.frontmatter.v

RECURSIVE FmFilesLoop(_, _, _, _)
FmFilesLoop(fs, fmRules, f, st) ==
    IF f > Len(fs) THEN st
    ELSE IF ~fs[f].hasFrontmatter \/ FrontmatterFalsy(fs[f])
    THEN FmFilesLoop(fs, fmRules, f + 1, st)
    ELSE FmFilesLoop(fs, fmRules, f + 1, FmRulesLoop(fs[f], fmRules, 1, st))

runFrontmatterRules(fs, rs) ==
    FmFilesLoop(fs, SelectSeq(rs, hasFmPattern), 1, FmStart)

(***************************************************************************)
(* AST analyzer.  The tree-sitter grammar is abstracted to one whose       *)
(* nodes are the single characters of the content: a query                 *)
(*   [valid, node, ncaps]                                                  *)
(* compiles iff valid, and matches every occurrence of the character node, *)
(* in document order, each match carrying ncaps captures of that node.     *)
(* Rows and columns are 0-based as tree-sitter reports them.               *)
(***************************************************************************)
QueryMatches(content, query) ==
    LET hits == {i \in 0..(Len(content) - 1) : content[i + 1] = query.node}
        nth[k \in 1..Cardinality(hits)] ==
            CHOOSE i \in hits : Cardinality({j \in hits : j < i}) = k - 1
    IN  [k \in 1..Cardinality(hits) |->
           [ncaps |-> query.ncaps,
            node  |-> [startRow |-> CountNL(content, nth[k]),
                       startCol |-> getColumnNumber(content, nth[k]) - 1,
                       endRow   |-> CountNL(content, nth[k] + 1),
                       endCol   |-> getColumnNumber(content, nth[k] + 1) - 1,
                       text     |-> <<query.node>>]]]

hasAstPattern(rule) ==
    \E j \in 1..Len(rule.patterns) : rule.patterns[j].type = "ast"

RECURSIVE AstMatchesLoop(_, _, _, _, _)
AstMatchesLoop(file, rule, matches, k, st) ==
    IF k > Len(matches) THEN st
    ELSE IF matches[k].ncaps = 0
    THEN AstMatchesLoop(file, rule, matches, k + 1, st)
    ELSE IF rule.perFileLimit /\ st.matched THEN st
    ELSE LET node == matches[k].node
         IN  AstMatchesLoop(file, rule, matches, k + 1,
                 [st EXCEPT !.findings =
                                Append(@, Finding(rule, file.relativePath,
                                                  node.startRow + 1,
                                                  node.endRow + 1,
                                                  node.startCol + 1,
                                                  node.text)),
                            !.matched = TRUE])

\* The resource events of the engine: a tree parsed or deleted, a query
\* compiled or deleted, an error caught and logged.
TreeEvent(e, file) == [e |-> e, file |-> file.relativePath]

QueryEvent(e, file, rule, pattern) ==
    [e |-> e, file |-> file.relativePath, rule |-> rule.id,
     query |-> pattern.query]

\* A query that is deleted only when its execution completed.
RunQueryNoFinally(file, rule, pattern, st) ==
    IF ~pattern.query.valid
    THEN [st EXCEPT !.trace = Append(@, QueryEvent("error", file, rule, pattern))]
    ELSE IF pattern.query.throws
    THEN [st EXCEPT !.trace = @ \o <<QueryEvent("compile", file, rule, pattern),
                                     QueryEvent("error", file, rule, pattern)>>]
    ELSE LET compiled == [st EXCEPT !.trace =
                             Append(@, QueryEvent("compile", file, rule, pattern))]
             ran == AstMatchesLoop(file, rule,
                                   QueryMatches(file.content, pattern.query),
                                   1, compiled)
         IN  [ran EXCEPT !.trace = Append(@, QueryEvent("delete", file, rule, pattern))]

\* new Query(...) and query.matches(...) inside try/catch/finally: when the
\* constructor throws, query is still null and the finally block deletes
\* nothing; when matches() throws, the error is logged and the query
\* deleted; a query whose field throws is set is one whose execution raises.
RunQuery(file, rule, pattern, st) ==
    IF ~pattern.query.valid
    THEN [st EXCEPT !.trace = Append(@, QueryEvent("error", file, rule, pattern))]
    ELSE IF pattern.query.throws
    THEN [st EXCEPT !.trace = @ \o <<QueryEvent("compile", file, rule, pattern),
                                     QueryEvent("error", file, rule, pattern),
                                     QueryEvent("delete", file, rule, pattern)>>]
    ELSE LET compiled == [st EXCEPT !.trace =
                             Append(@, QueryEvent("compile", file, rule, pattern))]
             ran == AstMatchesLoop(file, rule,
                                   QueryMatches(file.content, pattern.query),
                                   1, compiled)
         IN  [ran EXCEPT !.trace = Append(@, QueryEvent("delete", file, rule, pattern))]

RECURSIVE AstPatternsLoop(_, _, _, _)
AstPatternsLoop(file, rule, j, st) ==
    IF j > Len(rule.patterns) \/ st.raised THEN st
    ELSE IF rule.patterns[j].type # "ast"
    THEN AstPatternsLoop(file, rule, j + 1, st)
    ELSE IF rule.perFileLimit /\ st.matched THEN st
    ELSE IF rule.patterns[j].lang # "" /\ rule.patterns[j].lang # file.language
    THEN AstPatternsLoop(file, rule, j + 1, st)
    ELSE AstPatternsLoop(file, rule, j + 1,
                         RunQuery(file, rule, rule.patterns[j], st))

RECURSIVE AstRulesLoop(_, _, _, _)
AstRulesLoop(file, astRules, i, st) ==
    IF i > Len(astRules) \/ st.raised THEN st
    ELSE IF ~AstGate(astRules[i], file)
    THEN AstRulesLoop(file, astRules, i + 1, st)
    ELSE AstRulesLoop(file, astRules, i + 1,
                      AstPatternsLoop(file, astRules[i], 1,
                                      [st EXCEPT !.matched = FALSE]))

\* The module-level cache: the initialized flag and the languages whose
\* parser is cached.
EmptyCache == [initialized |-> FALSE, parsers |-> {}]

\* A cache whose entries cannot be used a second time.
getParserNoReuse(lang, cache, loadable) ==
    lang \notin cache.parsers /\ lang \in loadable

\* getParser(lang) returns a parser (TRUE) when one is cached or the grammar
\* can be loaded, and null (FALSE) otherwise.
getParser(lang, cache, loadable) ==
    lang \in cache.parsers \/ lang \in loadable

\* The languages for which getParser returns a parser.
Parsers(cache, loadable) ==
    {lang \in {"python", "bash", "javascript"} : getParser(lang, cache, loadable)}

\* The cache after runAstRules: untouched when no rule has an ast pattern,
\* else initialized and holding the parser of every file language for which
\* getParser returned one.
CacheAfter(fs, astRules, cache, loadable) ==
    IF astRules = <<>> THEN cache
    ELSE [initialized |-> TRUE,
          parsers |-> cache.parsers \cup
                      {fs[f].language :
                          f \in {g \in 1..Len(fs) :
                                    /\ fs[g].language # ""
                                    /\ getParser(fs[g].language, cache, loadable)}}]

\* The body of the file loop once a parser is at hand: parser.parse, the
\* rule loop, tree.delete().
ParseAndRun(file, astRules, st) ==
    LET parsed == [st EXCEPT !.trace = Append(@, TreeEvent("parse", file))]
        ran    == AstRulesLoop(file, astRules, 1, parsed)
    IN  [ran EXCEPT !.trace = Append(@, TreeEvent("treeDelete", file))]

\* loadable: the languages for which getParser returns a parser.
RECURSIVE AstFilesLoop(_, _, _, _, _)
AstFilesLoop(fs, astRules, loadable, f, st) ==
    IF f > Len(fs) \/ st.raised THEN st
    ELSE IF fs[f].language = "" \/ fs[f].language \notin loadable
    THEN AstFilesLoop(fs, astRules, loadable, f + 1, st)
    ELSE AstFilesLoop(fs, astRules, loadable, f + 1,
                      ParseAndRun(fs[f], astRules, st))

AstStart ==
    [findings |-> <<>>, matched |-> FALSE, raised |-> FALSE, trace |-> <<>>]

runAstRules(fs, rs, loadable) ==
    IF SelectSeq(rs, hasAstPattern) = <<>> THEN AstStart
    ELSE AstFilesLoop(fs, SelectSeq(rs, hasAstPattern), loadable, 1, AstStart)

(***************************************************************************)
(* ast.ts step by step.  runAstRules is an async function: it can be       *)
(* suspended at "await ensureInit()" (inside it, at "await Parser.init()") *)
(* and at "await getParser(...)" (inside it, at "await Language.load"),    *)
(* and another invocation can run in between; the code from one await to   *)
(* the next is one step.  engine holds, next to the module-level cache in  *)
(* parserCache, the calls made so far                                      *)
(*   inits  Parser.init() calls                                            *)
(*   loads  Language.load calls per language                               *)
(*   logs   languages of the "Could not load grammar" lines, in order      *)
(* and for each invocation [pc, f, st]: its position, the index of its     *)
(* current document and the findings and resource events so far.           *)
(***************************************************************************)
Invocations == {1, 2}

NoEngine ==
    [inits |-> 0,
     loads |-> [lang \in {"python", "bash", "javascript"} |-> 0],
     logs  |-> <<>>,
     inv   |-> [i \in Invocations |-> [pc |-> "idle", f |-> 1, st |-> AstStart]]]

EngineRules == SelectSeq(rules, hasAstPattern)

\* runAstRules up to "await Parser.init()".
EnsureInit(i) ==
    /\ engine.inv[i].pc = "start"
    /\ IF EngineRules = <<>>
       THEN engine' = [engine EXCEPT !.inv[i].pc = "done"]
       ELSE IF parserCache.initialized
       THEN engine' = [engine EXCEPT !.inv[i].pc = "files"]
       ELSE engine' = [engine EXCEPT !.inits = @ + 1, !.inv[i].pc = "initWait"]
    /\ UNCHANGED <<files, rules, grammars, patternFindings, fmFindings,
                   astFindings, findings, deduped, score, raised, parserCache,
                   run, firstRun, scanInput, scan, pc>>

\* Parser.init() resolves: initialized = true.
InitResolved(i) ==
    /\ engine.inv[i].pc = "initWait"
    /\ parserCache' = [parserCache EXCEPT !.initialized = TRUE]
    /\ engine' = [engine EXCEPT !.inv[i].pc = "files"]
    /\ UNCHANGED <<files, rules, grammars, patternFindings, fmFindings,
                   astFindings, findings, deduped, score, raised,
                   run, firstRun, scanInput, scan, pc>>

\* The head of the file loop up to the await in getParser: a document
\* without language is passed over, a cached parser is returned, otherwise
\* Language.load is called.
GetParser(i) ==
    /\ engine.inv[i].pc = "files"
    /\ engine.inv[i].f <= Len(files)
    /\ LET lang == files[engine.inv[i].f].language
       IN  IF lang = ""
           THEN engine' = [engine EXCEPT !.inv[i].f = @ + 1]
           ELSE IF lang \in parserCache.parsers
           THEN engine' = [engine EXCEPT !.inv[i].pc = "run"]
           ELSE engine' = [engine EXCEPT !.loads[lang] = @ + 1,
                                         !.inv[i].pc = "loadWait"]
    /\ UNCHANGED <<files, rules, grammars, patternFindings, fmFindings,
                   astFindings, findings, deduped, score, raised, parserCache,
                   run, firstRun, scanInput, scan, pc>>

\* Language.load settles: the parser is cached, or the error is logged and
\* getParser returns null, on which the file loop continues.
LoadResolved(i) ==
    /\ engine.inv[i].pc = "loadWait"
    /\ LET lang == files[engine.inv[i].f].language
       IN  IF lang \in grammars
           THEN /\ parserCache' = [parserCache EXCEPT !.parsers = @ \cup {lang}]
                /\ engine' = [engine EXCEPT !.inv[i].pc = "run"]
           ELSE /\ parserCache' = parserCache
                /\ engine' = [engine EXCEPT !.logs = Append(@, lang),
                                            !.inv[i].f = @ + 1,
                                            !.inv[i].pc = "files"]
    /\ UNCHANGED <<files, rules, grammars, patternFindings, fmFindings,
                   astFindings, findings, deduped, score, raised,
                   run, firstRun, scanInput, scan, pc>>

\* The rest of the loop body, which holds no await.
RunFile(i) ==
    /\ engine.inv[i].pc = "run"
    /\ engine' = [engine EXCEPT
                     !.inv[i].st = ParseAndRun(files[engine.inv[i].f],
                                               EngineRules, @),
                     !.inv[i].f = @ + 1,
                     !.inv[i].pc = "files"]
    /\ UNCHANGED <<files, rules, grammars, patternFindings, fmFindings,
                   astFindings, findings, deduped, score, raised, parserCache,
                   run, firstRun, scanInput, scan, pc>>

\* return findings
ReturnFindings(i) ==
    /\ engine.inv[i].pc = "files"
    /\ engine.inv[i].f > Len(files)
    /\ engine' = [engine EXCEPT !.inv[i].pc = "done"]
    /\ UNCHANGED <<files, rules, grammars, patternFindings, fmFindings,
                   astFindings, findings, deduped, score, raised, parserCache,
                   run, firstRun, scanInput, scan, pc>>

NextEngine ==
    \E i \in Invocations :
        \/ EnsureInit(i)
        \/ InitResolved(i)
        \/ GetParser(i)
        \/ LoadResolved(i)
        \/ RunFile(i)
        \/ ReturnFindings(i)

(***************************************************************************)
(* deduplicate.                                                            *)
(***************************************************************************)
\* A key that tells the findings of one line apart by their snippet.
DedupKeyWithSnippet(f) ==
    f.ruleId \o <<":">> \o f.file \o <<":">> \o f.snippet

\* A key that leaves the start line out.
DedupKeyNoLine(f) == f.ruleId \o <<":">> \o f.file

\* `${finding.ruleId}:${finding.location.file}:${finding.location.startLine}`
DedupKey(f) ==
    f.ruleId \o <<":">> \o f.file \o <<":">> \o Decimal(f.startLine)

RECURSIVE DedupLoop(_, _, _, _)
DedupLoop(list, k, seen, unique) ==
    IF k > Len(list) THEN unique
    ELSE IF DedupKey(list[k]) \in seen
    THEN DedupLoop(list, k + 1, seen, unique)
    ELSE DedupLoop(list, k + 1, seen \cup {DedupKey(list[k])},
                   Append(unique, list[k]))

SEVERITY_ORDER(sev) ==
    CASE sev = "critical" -> 5
      [] sev = "high"     -> 4
      [] sev = "medium"   -> 3
      [] sev = "low"      -> 2
      [] sev = "info"     -> 1

\* The comparison with its operands exchanged.
compareSeverityAscending(a, b) == SEVERITY_ORDER(a) - SEVERITY_ORDER(b)

compareSeverity(a, b) == SEVERITY_ORDER(b) - SEVERITY_ORDER(a)

\* The collation weight String.prototype.localeCompare gives a character:
\* punctuation before digits before letters.
CollationWeight(c) ==
    CASE c = "-" -> 1
      [] c = ":" -> 2
      [] c = "." -> 3
      [] c = "/" -> 4
      [] c \in {DigitChars[i] : i \in 1..10} ->
           10 + (CHOOSE i \in 0..9 : DigitChars[i + 1] = c)
      [] c = "a" -> 20
      [] c = "b" -> 21
      [] c = "d" -> 22
      [] c = "m" -> 23
      [] c = "p" -> 24
      [] c = "r" -> 25
      [] c = "y" -> 26
      [] OTHER   -> 30

RECURSIVE localeCompare(_, _)
localeCompare(a, b) ==
    IF a = <<>> /\ b = <<>> THEN 0
    ELSE IF a = <<>> THEN -1
    ELSE IF b = <<>> THEN 1
    ELSE IF CollationWeight(a[1]) < CollationWeight(b[1]) THEN -1
    ELSE IF CollationWeight(a[1]) > CollationWeight(b[1]) THEN 1
    ELSE localeCompare(Tail(a), Tail(b))

\* The comparator handed to Array.prototype.sort.
FindingCompare(a, b) ==
    IF compareSeverity(a.severity, b.severity) # 0
    THEN compareSeverity(a.severity, b.severity)
    ELSE IF localeCompare(a.file, b.file) # 0
    THEN localeCompare(a.file, b.file)
    ELSE a.startLine - b.startLine

\* An unstable insertion: an element goes before the elements already
\* placed that compare equal to it.
RECURSIVE InsertBeforeTies(_, _)
InsertBeforeTies(sorted, x) ==
    IF sorted = <<>> THEN <<x>>
    ELSE IF FindingCompare(sorted[Len(sorted)], x) < 0 THEN Append(sorted, x)
    ELSE Append(InsertBeforeTies(SubSeq(sorted, 1, Len(sorted) - 1), x),
                sorted[Len(sorted)])

\* Array.prototype.sort is stable: an element goes after every element
\* already placed that does not compare greater than it.
RECURSIVE InsertSorted(_, _)
InsertSorted(sorted, x) ==
    IF sorted = <<>> THEN <<x>>
    ELSE IF FindingCompare(sorted[Len(sorted)], x) <= 0 THEN Append(sorted, x)
    ELSE Append(InsertSorted(SubSeq(sorted, 1, Len(sorted) - 1), x),
                sorted[Len(sorted)])

RECURSIVE StableSort(_, _, _)
StableSort(list, k, sorted) ==
    IF k > Len(list) THEN sorted
    ELSE StableSort(list, k + 1, InsertSorted(sorted, list[k]))

\* The unique findings returned in input order, without the sort.
deduplicateUnsorted(list) == DedupLoop(list, 1, {}, <<>>)

deduplicate(list) == StableSort(DedupLoop(list, 1, {}, <<>>), 1, <<>>)

(***************************************************************************)
(* calculateScore.                                                         *)
(***************************************************************************)
\* A penalty table whose info entry raises the score.
SeverityPenaltyInfoBonus(sev) ==
    CASE sev = "critical" -> 15
      [] sev = "high"     -> 8
      [] sev = "medium"   -> 3
      [] sev = "low"      -> 1
      [] OTHER            -> -1

SEVERITY_PENALTY(sev) ==
    CASE sev = "critical" -> 15
      [] sev = "high"     -> 8
      [] sev = "medium"   -> 3
      [] sev = "low"      -> 1
      [] sev = "info"     -> 0

RECURSIVE ScoreLoop(_, _, _)
ScoreLoop(list, k, acc) ==
    IF k > Len(list) THEN acc
    ELSE ScoreLoop(list, k + 1, acc - SEVERITY_PENALTY(list[k].severity))

\* The score without its floor.
calculateScoreNoFloor(list) == ScoreLoop(list, 1, 100)

calculateScore(list) == Max2(0, ScoreLoop(list, 1, 100))

(***************************************************************************)
(* analyze: the router.  The three filters are applied by analyze before   *)
(* each engine is called (and again inside the engine).                    *)
(***************************************************************************)
HasFrontmatterFile(file) == file.hasFrontmatter

HasLanguageFile(file) == file.language # ""

analyzePattern(fs, rs) == runPatternRules(fs, SelectSeq(rs, hasRegexPattern))

analyzeFm(fs, rs) ==
    runFrontmatterRules(SelectSeq(fs, HasFrontmatterFile),
                        SelectSeq(rs, hasFmPattern))

analyzeAst(fs, rs, loadable) ==
    runAstRules(SelectSeq(fs, HasLanguageFile), SelectSeq(rs, hasAstPattern),
                loadable)

(***************************************************************************)
(* Input values: regexes, patterns and rules.                              *)
(***************************************************************************)
Lit(s) == [kind |-> "lit", text |-> s]

Star(s) == [kind |-> "star", text |-> s]

BadRegex == [kind |-> "bad", text |-> <<"(">>]

NoGate == [kind |-> "none", text |-> <<>>]

RegexPattern(re, excludePatterns) ==
    [type |-> "regex", regex |-> re, excludePatterns |-> excludePatterns]

FmPattern(field) ==
    [type |-> "frontmatter", field |-> field,
     hasExists |-> FALSE, exists |-> FALSE,
     hasEquals |-> FALSE, equals |-> [t |-> "null"],
     hasContains |-> FALSE, contains |-> <<>>,
     hasMatches |-> FALSE, matches |-> NoGate]

AstPattern(valid, node, ncaps, lang) ==
    [type |-> "ast", lang |-> lang,
     query |-> [valid |-> valid, node |-> node, ncaps |-> ncaps,
                throws |-> FALSE]]

Rule(id, severity, patterns, hasInclude, include, exclude, gate, limit) ==
    [id |-> id, severity |-> severity, message |-> Placeholder,
     patterns |-> patterns,
     hasInclude |-> hasInclude, include |-> include, exclude |-> exclude,
     requiresContext |-> gate, perFileLimit |-> limit]

Severities == {"critical", "high", "medium", "low", "info"}

Languages == {"python", "bash", "javascript"}

(***************************************************************************)
(* The pipeline, one action per call of the scan: analyze's three engine   *)
(* calls and its return, then deduplicate, then calculateScore.            *)
(***************************************************************************)
RunPatternRules ==
    /\ pc = "pattern"
    /\ LET r == analyzePattern(files, rules)
       IN  /\ patternFindings' = r.findings
           /\ raised' = r.raised
           /\ pc' = IF r.raised THEN "raised" ELSE "fm"
    /\ UNCHANGED <<files, rules, grammars, fmFindings, astFindings, findings,
                   deduped, score,
                   parserCache, run, firstRun, scanInput, engine,
                   scan>>

RunFrontmatterRules ==
    /\ pc = "fm"
    /\ LET r == analyzeFm(files, rules)
       IN  /\ fmFindings' = r.findings
           /\ raised' = r.raised
           /\ pc' = IF r.raised THEN "raised" ELSE "ast"
    /\ UNCHANGED <<files, rules, grammars, patternFindings, astFindings,
                   findings, deduped, score,
                   parserCache, run, firstRun, scanInput, engine,
                   scan>>

RunAstRules ==
    /\ pc = "ast"
    /\ LET r == analyzeAst(files, rules, Parsers(parserCache, grammars))
       IN  /\ astFindings' = r.findings
           /\ raised' = r.raised
           /\ pc' = IF r.raised THEN "raised" ELSE "return"
    /\ parserCache' = CacheAfter(SelectSeq(files, HasLanguageFile),
                                 SelectSeq(rules, hasAstPattern),
                                 parserCache, grammars)
    /\ UNCHANGED <<files, rules, grammars, patternFindings, fmFindings,
                   findings, deduped, score, run, firstRun,
                   scanInput, engine,
                   scan>>

\* The router returning the engines' lists in the opposite order.
AnalyzeReturnReversed ==
    /\ pc = "return"
    /\ findings' = astFindings \o fmFindings \o patternFindings
    /\ pc' = "dedup"
    /\ UNCHANGED <<files, rules, grammars, patternFindings, fmFindings,
                   astFindings, deduped, score, raised,
                   parserCache, run, firstRun, scanInput, engine,
                   scan>>

AnalyzeReturn ==
    /\ pc = "return"
    /\ findings' = patternFindings \o fmFindings \o astFindings
    /\ pc' = "dedup"
    /\ UNCHANGED <<files, rules, grammars, patternFindings, fmFindings,
                   astFindings, deduped, score, raised,
                   parserCache, run, firstRun, scanInput, engine,
                   scan>>

Deduplicate ==
    /\ pc = "dedup"
    /\ deduped' = deduplicate(findings)
    /\ pc' = "score"
    /\ UNCHANGED <<files, rules, grammars, patternFindings, fmFindings,
                   astFindings, findings, score, raised,
                   parserCache, run, firstRun, scanInput, engine,
                   scan>>

CalculateScore ==
    /\ pc = "score"
    /\ score' = calculateScore(deduped)
    /\ pc' = "done"
    /\ UNCHANGED <<files, rules, grammars, patternFindings, fmFindings,
                   astFindings, findings, deduped, raised,
                   parserCache, run, firstRun, scanInput, engine,
                   scan>>

Next ==
    \/ RunPatternRules
    \/ RunFrontmatterRules
    \/ RunAstRules
    \/ AnalyzeReturn
    \/ Deduplicate
    \/ CalculateScore

\* A second scan of the same documents with the same rules in the same
\* process: the module-level cache is kept.
Rerun ==
    /\ pc = "done" /\ run = 1
    /\ run' = 2
    /\ firstRun' = deduped
    /\ patternFindings' = <<>> /\ fmFindings' = <<>> /\ astFindings' = <<>>
    /\ findings' = <<>> /\ deduped' = <<>>
    /\ score' = 100
    /\ pc' = "pattern"
    /\ UNCHANGED <<files, rules, grammars, raised, parserCache, scanInput, engine,
                   scan>>

NextTwice == Next \/ Rerun

\* discoverFiles(targetPath, options) followed by the scan of what it returns.
DiscoverFiles ==
    /\ pc = "discover"
    /\ files' = discoverFiles(scanInput)
    /\ pc' = "pattern"
    /\ UNCHANGED <<rules, grammars, patternFindings, fmFindings, astFindings,
                   findings, deduped, score, raised, parserCache, run,
                   firstRun, scanInput, engine,
                   scan>>

NextDiscover == DiscoverFiles \/ Next

InitScan(fs, rs, loadable) ==
    /\ files = fs
    /\ rules = rs
    /\ grammars = loadable
    /\ patternFindings = <<>>
    /\ fmFindings = <<>>
    /\ astFindings = <<>>
    /\ findings = <<>>
    /\ deduped = <<>>
    /\ score = 100
    /\ raised = FALSE
    /\ parserCache = EmptyCache
    /\ run = 1
    /\ firstRun = <<>>
    /\ scanInput = NoScanInput
    /\ engine = NoEngine
    /\ scan = NoScan
    /\ pc = "pattern"

(***************************************************************************)
(* Spec: scans of one markdown document (optionally followed by a second   *)
(* document) with one textual rule.                                        *)
(***************************************************************************)
C == <<"c">>

CCC == <<"c", "c", "c">>

TextLines == {C, CCC, Fence}

Bodies == UNION {[1..n -> TextLines] : n \in 1..MaxBodyLines}

FmHeader == Dashes \o <<NL>> \o <<"k", ":", " ", "c">> \o <<NL>> \o Dashes \o <<NL>>

TextContents ==
    {JoinLines(b) : b \in Bodies} \cup {FmHeader \o JoinLines(b) : b \in Bodies}

NameMd == <<"a">> \o ExtMd

NamePy == <<"b">> \o ExtPy

SecondDocs == {<<>>, <<buildFileEntry(NamePy, C \o <<NL>> \o C)>>}

TextFiles ==
    {<<buildFileEntry(NameMd, t)>> \o d : t \in TextContents, d \in SecondDocs}

TextPatternLists ==
    {<<RegexPattern(Lit(C), <<>>)>>,
     <<RegexPattern(Lit(<<"c", "c">>), <<>>)>>,
     <<RegexPattern(Star(C), <<>>)>>,
     <<RegexPattern(Lit(C), <<Lit(CCC)>>)>>,
     <<RegexPattern(Lit(<<"c", NL, "c">>), <<>>)>>,
     <<RegexPattern(Lit(CCC), <<>>), RegexPattern(Lit(C), <<Lit(CCC)>>)>>}

TextIncludes ==
    {<<>>, <<"all">>, <<"scripts">>, <<"body">>, <<"frontmatter">>,
     <<"frontmatter", "scripts">>}

RuleId1 == <<"P", "1">>

RuleId2 == <<"P", "2">>

TextRules ==
    {<<Rule(RuleId1, "critical", ps, inc # <<>>, inc, <<>>, NoGate, lim)>> :
        ps \in TextPatternLists, inc \in TextIncludes, lim \in BOOLEAN}

Init ==
    \E fs \in TextFiles, rs \in TextRules : InitScan(fs, rs, Languages)

Spec == Init /\ [][Next]_vars

(***************************************************************************)
(* Vocabulary of the properties.                                           *)
(***************************************************************************)
\* The findings of a list that carry a given rule id and file identifier.
FindingsFor(list, ruleId, file) ==
    LET Keep(f) == f.ruleId = ruleId /\ f.file = file
    IN  SelectSeq(list, Keep)

\* The 0-based position of (line, column) in a text, from its lines.
RECURSIVE LineStart(_, _)
LineStart(lines, line) ==
    IF line <= 1 THEN 0
    ELSE LineStart(lines, line - 1) + Len(lines[line - 1]) + 1

PosOf(text, line, column) == LineStart(SplitLines(text), line) + column - 1

\* The 1-based line on which a position of a text lies.
LineOf(text, pos) == Len(SplitLines(Slice(text, 0, pos)))

\* The positions a finding list reports for a text.
Positions(text, list) ==
    [k \in 1..Len(list) |-> PosOf(text, list[k].startLine, list[k].startColumn)]

WholeDocumentRule(rule) ==
    /\ Len(rule.patterns) = 1
    /\ rule.patterns[1].type = "regex"
    /\ rule.patterns[1].excludePatterns = <<>>
    /\ ~rule.hasInclude \/ rule.include = <<"all">>
    /\ rule.exclude = <<>>
    /\ rule.requiresContext.kind = "none"
    /\ ~rule.perFileLimit

\* The findings of a whole-document rule on one file are exactly the
\* leftmost non-overlapping matches of the regex in the content.
ExactMatches(file, rule, list) ==
    LET re  == rule.patterns[1].regex
        txt == file.content
        pos == Positions(txt, list)
    IN  /\ \A k \in 1..Len(list) :
              /\ list[k].startLine >= 1
              /\ list[k].startColumn >= 1
              /\ MatchLen(re, txt, pos[k]) >= 0
              /\ list[k].snippet =
                     Slice(txt, pos[k], pos[k] + MatchLen(re, txt, pos[k]))
              /\ list[k].startLine = LineOf(txt, pos[k])
        /\ \A k \in 1..(Len(list) - 1) :
              /\ pos[k] < pos[k + 1]
              /\ pos[k] + MatchLen(re, txt, pos[k]) <= pos[k + 1]
        /\ \A p \in 0..Len(txt) :
              MatchLen(re, txt, p) >= 0 =>
                  \/ \E k \in 1..Len(list) : pos[k] = p
                  \/ \E k \in 1..Len(list) :
                        pos[k] < p /\ p < pos[k] + MatchLen(re, txt, pos[k])

\* C1: for a rule with one textual pattern scoped to the whole document (no
\* gate, exclusion, suppressor or per-file limit), runPatternRules emits
\* exactly one finding per non-overlapping match of the regex in the content
\* of each document, located on the line where that match starts.
C1_OneFindingPerMatch ==
    (pc = "fm" /\ Len(rules) = 1 /\ WholeDocumentRule(rules[1])) =>
        \A f \in 1..Len(files) :
            ExactMatches(files[f], rules[1],
                         FindingsFor(patternFindings, rules[1].id, files[f].path))

\* A scan where matches start on several lines and an overlapping candidate
\* (the second c of "ccc" for the regex cc) is not reported.
C1_Witness ==
    /\ pc = "fm" /\ Len(rules) = 1 /\ WholeDocumentRule(rules[1])
    /\ rules[1].patterns[1].regex = Lit(<<"c", "c">>)
    /\ \E i, j \in 1..Len(patternFindings) :
          /\ patternFindings[i].file = files[1].path
          /\ patternFindings[j].file = files[1].path
          /\ patternFindings[i].startLine # patternFindings[j].startLine
    /\ \E p \in 0..Len(files[1].content) :
          /\ MatchLen(Lit(<<"c", "c">>), files[1].content, p) >= 0
          /\ \A k \in 1..Len(patternFindings) :
                patternFindings[k].file = files[1].path =>
                    PosOf(files[1].content, patternFindings[k].startLine,
                          patternFindings[k].startColumn) # p

\* The document lines that are content lines of a fenced code block, the
\* scan starting at line i outside any block.
RECURSIVE FencedLines(_, _, _)
FencedLines(lines, i, inBlock) ==
    IF i > Len(lines) THEN {}
    ELSE IF inBlock
    THEN (IF lines[i] = Fence THEN FencedLines(lines, i + 1, FALSE)
          ELSE {i} \cup FencedLines(lines, i + 1, TRUE))
    ELSE FencedLines(lines, i + 1, StartsWithAt(lines[i], Fence, 0))

\* The line on which the markdown source (the body, which is a suffix of
\* the content, or the whole content) starts.
SourceStartLine(file) ==
    IF file.hasFrontmatter
    THEN LineOf(file.content, Len(file.content) - Len(file.body))
    ELSE 1

CodeBlockLines(file) ==
    FencedLines(SplitLines(file.content), SourceStartLine(file), FALSE)

CountChar(text, c) == Cardinality({i \in 1..Len(text) : text[i] = c})

ScriptsRule(rule) ==
    /\ rule.patterns = <<RegexPattern(Lit(C), <<>>)>>
    /\ rule.hasInclude /\ rule.include = <<"scripts">>
    /\ rule.exclude = <<>>
    /\ rule.requiresContext.kind = "none"
    /\ ~rule.perFileLimit

\* C2: for a markdown document and a textual rule scoped to scripts, each
\* match inside a fenced code block yields one finding whose startLine is the
\* document line where the match sits inside that block, and no finding lies
\* on any other line (stated for the one-character regex c: a line holds as
\* many findings as it has c's when it is a block line, and none otherwise).
C2_ScriptsFindingsSitInBlocks ==
    (pc = "fm" /\ Len(rules) = 1 /\ ScriptsRule(rules[1])
       /\ files[1].extension = ExtMd) =>
        LET list  == FindingsFor(patternFindings, rules[1].id, files[1].path)
            lines == SplitLines(files[1].content)
            blk   == CodeBlockLines(files[1])
        IN  \A L \in 1..(Len(lines) + 1) :
                Cardinality({k \in 1..Len(list) : list[k].startLine = L}) =
                    IF L \in blk THEN CountChar(lines[L], "c") ELSE 0

\* Some pattern of the rule has, in some region of the file, a match whose
\* document line no suppressing regex of that pattern matches.
SurvivingMatch(file, rule) ==
    \E j \in 1..Len(rule.patterns) :
        /\ rule.patterns[j].type = "regex"
        /\ RegexValid(rule.patterns[j].regex)
        /\ LET regions == getContentRegions(file, rule)
           IN  \E r \in 1..Len(regions) :
                 \E p \in 0..Len(regions[r].content) :
                   /\ MatchLen(rule.patterns[j].regex, regions[r].content, p) >= 0
                   /\ ~Suppressed(file, rule.patterns[j],
                                  LineOf(file.content, regions[r].offset + p))

\* C6: for a rule with perFileLimit=true the textual engine emits exactly one
\* finding for every document in which at least one match survives
\* suppression, and none for the other documents; a match in one document
\* does not count against another document.
C6_OnePerDocument ==
    (pc = "fm" /\ Len(rules) = 1 /\ rules[1].perFileLimit) =>
        \A f \in 1..Len(files) :
            Len(FindingsFor(patternFindings, rules[1].id, files[f].path)) =
                IF /\ ~shouldExcludeFile(files[f], rules[1].exclude)
                   /\ PatternGate(rules[1], files[f])
                   /\ SurvivingMatch(files[f], rules[1])
                THEN 1 ELSE 0

\* Two documents that each hold several matches of a two-pattern rule, with
\* a suppressed line in the first, and one finding reported for each.
C6_Witness ==
    /\ pc = "fm" /\ Len(rules) = 1 /\ rules[1].perFileLimit
    /\ Len(rules[1].patterns) = 2
    /\ Len(files) = 2
    /\ CountChar(files[1].content, "c") >= 5
    /\ CountChar(files[2].content, "c") >= 2
    /\ Len(FindingsFor(patternFindings, rules[1].id, files[1].path)) = 1
    /\ Len(FindingsFor(patternFindings, rules[1].id, files[2].path)) = 1
    /\ Len(patternFindings) = 2

(***************************************************************************)
(* SpecDedup: deduplicate and calculateScore applied to arbitrary short    *)
(* finding lists.  SpecScore: the same two calls on longer lists of        *)
(* findings with distinct keys, given by how many of each severity.        *)
(***************************************************************************)
NextDedup ==
    \/ Deduplicate
    \/ CalculateScore

FileA == <<"a">>

FileColon == <<"a", ":", "1">>

AFinding(ruleId, severity, file, line, column) ==
    [ruleId |-> ruleId, severity |-> severity, file |-> file,
     startLine |-> line, endLine |-> line, startColumn |-> column,
     snippet |-> <<"c">>]

FindingUniverse ==
    {AFinding(RuleId1, v[1], file, line, v[2]) :
        v \in {<<"critical", 1>>, <<"low", 2>>},
        file \in {FileA, FileColon}, line \in {1, 2}}
    \cup
    {AFinding(RuleId2, IF line = 1 THEN "high" ELSE "critical", file, line, 1) :
        file \in {FileA, FileColon}, line \in {1, 2}}

FindingLists == UNION {[1..n -> FindingUniverse] : n \in 0..MaxFindings}

InitList(list) ==
    /\ files = <<>>
    /\ rules = <<>>
    /\ grammars = {}
    /\ patternFindings = <<>>
    /\ fmFindings = <<>>
    /\ astFindings = <<>>
    /\ findings = list
    /\ deduped = <<>>
    /\ score = 100
    /\ raised = FALSE
    /\ parserCache = EmptyCache
    /\ run = 1
    /\ firstRun = <<>>
    /\ scanInput = NoScanInput
    /\ engine = NoEngine
    /\ scan = NoScan
    /\ pc = "dedup"

InitDedup == \E list \in FindingLists : InitList(list)

SpecDedup == InitDedup /\ [][NextDedup]_vars

SeverityList == <<"critical", "high", "medium", "low", "info">>

\* The list holding n[k] findings of severity SeverityList[k], on lines 1, 2, ...
CountedList(n) ==
    LET total == n[1] + n[2] + n[3] + n[4] + n[5]
        SevAt(i) ==
            SeverityList[Min({k \in 1..5 :
                i <= n[1] + (IF k >= 2 THEN n[2] ELSE 0)
                          + (IF k >= 3 THEN n[3] ELSE 0)
                          + (IF k >= 4 THEN n[4] ELSE 0)
                          + (IF k >= 5 THEN n[5] ELSE 0)})]
    IN  [i \in 1..total |-> AFinding(RuleId1, SevAt(i), FileA, i, 1)]

SeverityCounts ==
    {n \in [1..5 -> 0..MaxScoreLen] : n[1] + n[2] + n[3] + n[4] + n[5] <= MaxScoreLen}

InitScore == \E n \in SeverityCounts : InitList(CountedList(n))

SpecScore == InitScore /\ [][NextDedup]_vars

(***************************************************************************)
(* Properties of deduplicate and calculateScore.                           *)
(***************************************************************************)
SameKey(f, g) ==
    f.ruleId = g.ruleId /\ f.file = g.file /\ f.startLine = g.startLine

\* C3: the output of deduplicate holds, for each (ruleId, file, startLine)
\* occurring in the input, exactly one finding, which is the earliest input
\* finding with that key, and holds nothing else.
C3_FirstPerKey ==
    pc = "score" =>
        /\ \A i \in 1..Len(findings) :
              LET first == Min({j \in 1..Len(findings) :
                                   SameKey(findings[j], findings[i])})
                  hits  == {k \in 1..Len(deduped) :
                               SameKey(deduped[k], findings[i])}
              IN  /\ Cardinality(hits) = 1
                  /\ \A k \in hits : deduped[k] = findings[first]
        /\ \A k \in 1..Len(deduped) :
              \E i \in 1..Len(findings) : findings[i] = deduped[k]

\* Two findings with one key and different columns collapsed to the first.
C3_Witness ==
    /\ pc = "score"
    /\ Len(findings) = 3
    /\ SameKey(findings[1], findings[3])
    /\ findings[1].startColumn # findings[3].startColumn
    /\ ~SameKey(findings[1], findings[2])
    /\ Len(deduped) = 2
    /\ \E k \in 1..2 : deduped[k] = findings[1]

SeverityPosition(sev) == CHOOSE k \in 1..5 : SeverityList[k] = sev

\* a is not after b: severity descending, then file ascending, then line.
NotAfter(a, b) ==
    \/ SeverityPosition(a.severity) < SeverityPosition(b.severity)
    \/ /\ a.severity = b.severity
       /\ \/ localeCompare(a.file, b.file) < 0
          \/ localeCompare(a.file, b.file) = 0 /\ a.startLine <= b.startLine

\* C4: the list returned by deduplicate is ordered by severity descending,
\* then file path ascending, then start line ascending.
C4_Sorted ==
    pc = "score" =>
        \A k \in 1..(Len(deduped) - 1) : NotAfter(deduped[k], deduped[k + 1])

\* An input given in the reverse of the required order, on all three levels.
C4_Witness ==
    /\ pc = "score"
    /\ Len(findings) = 3 /\ Len(deduped) = 3
    /\ deduped[1] = findings[3] /\ deduped[3] = findings[1]
    /\ deduped[1].severity # deduped[2].severity
    /\ deduped[2].severity = deduped[3].severity
    /\ deduped[2].file # deduped[3].file

ListPermutations(n) == {p \in [1..n -> 1..n] : \A i, j \in 1..n : p[i] = p[j] => i = j}

Permuted(list, p) == [i \in 1..Len(list) |-> list[p[i]]]

KeysOf(list) ==
    {<<list[k].ruleId, list[k].file, list[k].startLine>> : k \in 1..Len(list)}

\* C5 as claimed: the deduplicated, sorted list is the same for every
\* permutation of the input list.
C5_PermutationInvariant ==
    pc = "score" =>
        \A p \in ListPermutations(Len(findings)) :
            deduplicate(Permuted(findings, p)) = deduped

\* No two findings share a key while differing, and no two findings of
\* different keys tie on severity, file and start line.
NoTies(list) ==
    \A i, j \in 1..Len(list) :
        /\ SameKey(list[i], list[j]) => list[i] = list[j]
        /\ ~SameKey(list[i], list[j]) =>
              ~(NotAfter(list[i], list[j]) /\ NotAfter(list[j], list[i]))

\* C5 as amended: for every permutation of the input the output has the same
\* set of dedup keys, each once, and it is the same list when no two input
\* findings share a key while differing in another field and no two findings
\* of different keys tie on severity, file and start line.
C5_PermutationInvariantUpToTies ==
    pc = "score" =>
        \A p \in ListPermutations(Len(findings)) :
            LET out == deduplicate(Permuted(findings, p))
            IN  /\ KeysOf(out) = KeysOf(deduped)
                /\ Len(out) = Len(deduped)
                /\ NoTies(findings) => out = deduped

\* An unsorted input of three findings without ties or conflicting
\* duplicates, one of them given twice.
C5_Witness ==
    /\ pc = "score"
    /\ Len(findings) = 3 /\ NoTies(findings)
    /\ Len(deduped) = 2
    /\ deduped[1] = findings[3]

\* C8: calculateScore returns max(0, 100 - 15 critical - 8 high - 3 medium
\* - 1 low), an integer in 0..100.
CountSeverity(list, sev) ==
    Cardinality({k \in 1..Len(list) : list[k].severity = sev})

C8_ScoreFormula ==
    pc = "done" =>
        LET total == 15 * CountSeverity(deduped, "critical")
                     + 8 * CountSeverity(deduped, "high")
                     + 3 * CountSeverity(deduped, "medium")
                     + CountSeverity(deduped, "low")
        IN  /\ score = (IF total >= 100 THEN 0 ELSE 100 - total)
            /\ score \in 0..100

\* Seven critical findings: the penalties exceed 100 and the score is 0.
C8_Witness ==
    /\ pc = "done"
    /\ CountSeverity(deduped, "critical") = 7
    /\ score = 0

(***************************************************************************)
(* SpecRouter: scans of two documents (a markdown document or a script     *)
(* with front matter, then a plain script) with one rule that mixes        *)
(* pattern kinds, alone or followed by a second rule.                      *)
(***************************************************************************)
K == <<"k">>

PatternPool ==
    <<RegexPattern(Lit(C), <<>>),
      RegexPattern(BadRegex, <<>>),
      [FmPattern(K) EXCEPT !.hasExists = TRUE, !.exists = TRUE],
      [FmPattern(K) EXCEPT !.hasMatches = TRUE, !.matches = BadRegex],
      AstPattern(TRUE, "c", 1, ""),
      AstPattern(FALSE, "c", 1, "")>>

\* The elements of a sequence at the positions in a set, in order.
RECURSIVE Pick(_, _, _)
Pick(seq, keep, i) ==
    IF i > Len(seq) THEN <<>>
    ELSE (IF i \in keep THEN <<seq[i]>> ELSE <<>>) \o Pick(seq, keep, i + 1)

RouterPatternLists ==
    {Pick(PatternPool, keep, 1) : keep \in (SUBSET (1..Len(PatternPool))) \ {{}}}

RouterGates == {NoGate, Lit(C), Lit(K), Lit(<<"z">>), BadRegex}

RouterIncludes == {<<>>, <<"body">>}

OtherRule ==
    Rule(RuleId2, "high",
         Pick(PatternPool, {1, 3, 5}, 1), FALSE, <<>>, <<>>, NoGate, FALSE)

RouterRules ==
    {<<Rule(RuleId1, "critical", ps, inc # <<>>, inc, <<>>, gate, lim)>> \o o :
        ps \in RouterPatternLists, inc \in RouterIncludes,
        gate \in RouterGates, lim \in BOOLEAN, o \in {<<>>, <<OtherRule>>}}

DocMd == buildFileEntry(NameMd, FmHeader \o C)

DocPy == buildFileEntry(NamePy, C \o <<NL>> \o C)

DocPyFm == buildFileEntry(<<"d">> \o ExtPy, FmHeader \o C)

RouterFiles == {<<DocMd, DocPy>>, <<DocPyFm, DocPy>>}

InitRouter ==
    \E fs \in RouterFiles, rs \in RouterRules, g \in {Languages, {"bash"}} :
        InitScan(fs, rs, g)

SpecRouter == InitRouter /\ [][Next]_vars

(***************************************************************************)
(* Properties of the router and of the three engines.                      *)
(***************************************************************************)
\* The findings of a list that a rule produced for a document, under either
\* file identifier.
FindingsOn(list, rule, file) ==
    LET Keep(f) == f.ruleId = rule.id /\ f.file \in {file.path, file.relativePath}
    IN  SelectSeq(list, Keep)

\* C7: for every rule with perFileLimit=true and every document, the list
\* returned by analyze holds at most one finding of that rule for that
\* document.
C7_AtMostOnePerRuleAndDocument ==
    pc = "dedup" =>
        \A i \in 1..Len(rules), f \in 1..Len(files) :
            rules[i].perFileLimit =>
                Len(FindingsOn(findings, rules[i], files[f])) <= 1

\* The gate regex compiles and matches somewhere in the full content.
GateMatches(rule, file) ==
    \/ rule.requiresContext.kind = "none"
    \/ /\ rule.requiresContext.kind # "bad"
       /\ \E p \in 0..Len(file.content) :
             MatchLen(rule.requiresContext, file.content, p) >= 0

Ungated(rule) == [rule EXCEPT !.requiresContext = NoGate]

\* C9: in each engine a rule produces no finding for a document its gate does
\* not match (or when the gate does not compile), and where the gate matches
\* the full content the rule's findings for that document are those of the
\* rule without the gate, whatever the other rules and documents are.
C9_ContextGate ==
    pc = "return" =>
        \A i \in 1..Len(rules), f \in 1..Len(files) :
            LET ok == GateMatches(rules[i], files[f])
                r  == <<Ungated(rules[i])>>
                d  == <<files[f]>>
            IN  /\ FindingsOn(patternFindings, rules[i], files[f]) =
                       IF ok THEN analyzePattern(d, r).findings ELSE <<>>
                /\ FindingsOn(fmFindings, rules[i], files[f]) =
                       IF ok THEN analyzeFm(d, r).findings ELSE <<>>
                /\ FindingsOn(astFindings, rules[i], files[f]) =
                       IF ok THEN analyzeAst(d, r, grammars).findings ELSE <<>>

\* A body-scoped rule whose gate text occurs only in the front matter fires
\* on the first document in all three engines, and is silent on the second
\* document, which the gate does not match, while the other rule reports it.
C9_Witness ==
    /\ pc = "return" /\ Len(rules) = 2
    /\ rules[1].requiresContext = Lit(K)
    /\ rules[1].include = <<"body">>
    /\ FindingsOn(patternFindings, rules[1], files[1]) # <<>>
    /\ FindingsOn(fmFindings, rules[1], files[1]) # <<>>
    /\ FindingsOn(astFindings, rules[1], files[1]) # <<>>
    /\ FindingsOn(patternFindings \o astFindings, rules[1], files[2]) = <<>>
    /\ FindingsOn(patternFindings, rules[2], files[2]) # <<>>
    /\ FindingsOn(astFindings, rules[2], files[2]) # <<>>

BadPattern(pattern) ==
    \/ pattern.type = "regex" /\ pattern.regex.kind = "bad"
    \/ pattern.type = "frontmatter" /\ pattern.hasMatches
         /\ pattern.matches.kind = "bad"
    \/ pattern.type = "ast" /\ ~pattern.query.valid

GoodPattern(pattern) == ~BadPattern(pattern)

\* The rules with every bad pattern removed; a rule left without patterns
\* is dropped.
RECURSIVE StripBad(_)
StripBad(rs) ==
    IF rs = <<>> THEN <<>>
    ELSE LET good == SelectSeq(rs[1].patterns, GoodPattern)
         IN  (IF good = <<>> THEN <<>>
              ELSE <<[rs[1] EXCEPT !.patterns = good]>>)
             \o StripBad(Tail(rs))

\* C10: a regex, a matches regex or a query that does not compile makes only
\* its own pattern yield nothing: no exception leaves analyze, and analyze
\* returns exactly the findings it returns for the rules without the bad
\* patterns.
C10_BadPatternIsolated ==
    /\ ~raised
    /\ pc # "raised"
    /\ pc = "dedup" =>
          findings = analyzePattern(files, StripBad(rules)).findings
                     \o analyzeFm(files, StripBad(rules)).findings
                     \o analyzeAst(files, StripBad(rules), grammars).findings

\* A rule holding a bad pattern of each kind next to a good one of each
\* kind, whose good patterns all report.
C10_Witness ==
    /\ pc = "dedup"
    /\ Len(rules[1].patterns) = Len(PatternPool)
    /\ rules[1].requiresContext.kind = "none"
    /\ FindingsOn(patternFindings, rules[1], files[1]) # <<>>
    /\ FindingsOn(fmFindings, rules[1], files[1]) # <<>>
    /\ FindingsOn(astFindings, rules[1], files[1]) # <<>>
    /\ findings = patternFindings \o fmFindings \o astFindings

(***************************************************************************)
(* SpecShape: scans of one document, with or without front matter (nested, *)
(* flat, scalar, empty or malformed) and with or without a language, by    *)
(* one rule holding a structured-field pattern, alone or between a textual *)
(* and a syntax-tree pattern.                                              *)
(***************************************************************************)
YamlMOA(leaf) ==
    <<"m", ":", NL, " ", " ", "o", ":", NL, " ", " ", " ", " ">> \o leaf

FrontMatters ==
    {YamlMOA(<<"a", ":", " ">> \o YamlTrue),
     YamlMOA(<<"a", ":", " ">> \o YamlFalse),
     YamlMOA(<<"a", ":", " ", "c">>),
     YamlMOA(<<"b", ":", " ">> \o YamlTrue),
     <<"m", ":", NL, " ", " ", "o", ":", " ">> \o YamlTrue,
     <<"m", ":", NL, " ", " ", "o", ":">>,
     <<"a", ":", " ">> \o YamlTrue,
     <<"m", ".", "o", ".", "a", ":", " ">> \o YamlTrue,
     <<"a", ":", " ">> \o YamlTrue \o <<NL, "c">>,
     <<"c">>,
     <<>>}

ShapeContents ==
    {C} \cup {Dashes \o <<NL>> \o y \o <<NL>> \o Dashes \o <<NL>> \o C :
                 y \in FrontMatters}

ShapeFiles ==
    {<<buildFileEntry(n, c)>> : n \in {NameMd, NamePy}, c \in ShapeContents}

FieldPaths ==
    {<<"m", ".", "o", ".", "a">>, <<"m", ".", "o">>, <<"a">>,
     <<"m", ".", "o", ".", "a", ".", "x">>}

EqualsValues ==
    {[t |-> "bool", v |-> TRUE], [t |-> "bool", v |-> FALSE],
     [t |-> "str", v |-> C], YamlNull}

FieldPatterns ==
    {[FmPattern(f) EXCEPT !.hasExists = TRUE, !.exists = e] :
        f \in FieldPaths, e \in BOOLEAN}
    \cup {[FmPattern(f) EXCEPT !.hasEquals = TRUE, !.equals = v] :
             f \in FieldPaths, v \in EqualsValues}

ShapeRules ==
    {<<Rule(RuleId1, "high", ps, FALSE, <<>>, <<>>, NoGate, FALSE)>> :
        ps \in {<<fp>> : fp \in FieldPatterns}
               \cup {<<RegexPattern(Lit(C), <<>>), fp, AstPattern(TRUE, "c", 1, "")>> :
                        fp \in FieldPatterns}}

InitShape ==
    \E fs \in ShapeFiles, rs \in ShapeRules : InitScan(fs, rs, Languages)

SpecShape == InitShape /\ [][Next]_vars

HasPatternOfType(rule, type) ==
    \E j \in 1..Len(rule.patterns) : rule.patterns[j].type = type

\* C11: a document without parsed front matter (none, malformed, or empty)
\* gets no finding from the structured-field engine, whatever the condition;
\* a document without a detected language gets none from the syntax-tree
\* engine; nothing is raised, and the textual pattern of the same rule still
\* reports the document.
C11_ShapeEdgeCases ==
    /\ ~raised /\ pc # "raised"
    /\ pc = "return" =>
          \A f \in 1..Len(files) :
              /\ (~files[f].hasFrontmatter \/ ~files[f].hasParsed
                    \/ files[f].frontmatter = YamlNull) =>
                     FindingsOn(fmFindings, rules[1], files[f]) = <<>>
              /\ files[f].language = "" =>
                     FindingsOn(astFindings, rules[1], files[f]) = <<>>
              /\ HasPatternOfType(rules[1], "regex") =>
                     FindingsOn(patternFindings, rules[1], files[f]) # <<>>

\* A markdown document with malformed front matter, scanned by a rule with a
\* textual pattern, an exists: false pattern and a syntax-tree pattern: only
\* the textual engine reports.
C11_Witness ==
    /\ pc = "return"
    /\ files[1].hasFrontmatter /\ ~files[1].hasParsed
    /\ files[1].language = ""
    /\ Len(rules[1].patterns) = 3
    /\ rules[1].patterns[2].hasExists /\ ~rules[1].patterns[2].exists
    /\ patternFindings # <<>>
    /\ fmFindings = <<>> /\ astFindings = <<>>

\* The value v is reached from root by following the keys of parts through
\* nested mappings.
RECURSIVE Reaches(_, _, _)
Reaches(root, parts, v) ==
    IF parts = <<>> THEN root.t = v.t /\ root = v /\ v.t # "map"
    ELSE /\ root.t = "map"
         /\ \E k \in 1..Len(root.v) :
               /\ root.v[k].key = parts[1]
               /\ Reaches(root.v[k].value, Tail(parts), v)

\* C12: a structured-field pattern with a dot-delimited path and equals: v
\* fires on a document iff the path, followed through the parsed front
\* matter, reaches a value strictly equal to v.
C12_EqualsOnPath ==
    (pc = "return" /\ Len(rules[1].patterns) = 1
       /\ rules[1].patterns[1].type = "frontmatter"
       /\ rules[1].patterns[1].hasEquals) =>
        \A f \in 1..Len(files) :
            (FindingsOn(fmFindings, rules[1], files[f]) # <<>>) <=>
                /\ files[f].hasFrontmatter /\ files[f].hasParsed
                /\ Reaches(files[f].frontmatter,
                           SplitDots(rules[1].patterns[1].field),
                           rules[1].patterns[1].equals)

\* Front matter m: o: a: true and the pattern field m.o.a, equals true.
C12_Witness ==
    /\ pc = "return" /\ Len(rules[1].patterns) = 1
    /\ rules[1].patterns[1].hasEquals
    /\ rules[1].patterns[1].field = <<"m", ".", "o", ".", "a">>
    /\ rules[1].patterns[1].equals = [t |-> "bool", v |-> TRUE]
    /\ files[1].rawFrontmatter = YamlMOA(<<"a", ":", " ">> \o YamlTrue)
    /\ Len(fmFindings) = 1
    /\ fmFindings[1].startLine = 2

(***************************************************************************)
(* SpecMessage: scans of one markdown document whose content holds dollar  *)
(* sequences or a long run of one character, by one whole-document textual *)
(* rule with a message template.                                           *)
(***************************************************************************)
Repeat(s, n) == [i \in 1..(n * Len(s)) |-> s[((i - 1) % Len(s)) + 1]]

DollarTexts ==
    {<<"$", "&">>, <<"$", "$">>, <<"$", "'">>, <<"$", "1">>, <<"$">>}

DollarContents == DollarTexts \cup {<<"c">> \o d \o <<"c">> : d \in DollarTexts}

RunContents ==
    {Repeat(C, n) : n \in {1, MessageMax, MessageMax + 1, SnippetMax + 1}}

MessageTemplates ==
    {Placeholder,
     <<"x">> \o Placeholder \o <<"y">>,
     <<"x">> \o Placeholder \o <<"y">> \o Placeholder \o <<"z">>,
     <<"x", "{", "m", "}", "$", "&">>}

MessageRule(re, tpl) ==
    [Rule(RuleId1, "low", <<RegexPattern(re, <<>>)>>, FALSE, <<>>, <<>>,
          NoGate, FALSE) EXCEPT !.message = tpl]

\* Dollar texts are searched with literal regexes, runs of c with c*.
InitMessage ==
    \E tpl \in MessageTemplates :
        \/ \E c \in DollarContents, d \in DollarTexts \cup {C} :
              InitScan(<<buildFileEntry(NameMd, c)>>,
                       <<MessageRule(Lit(d), tpl)>>, Languages)
        \/ \E c \in RunContents :
              InitScan(<<buildFileEntry(NameMd, c)>>,
                       <<MessageRule(Star(C), tpl)>>, Languages)

SpecMessage == InitMessage /\ [][Next]_vars

\* The template with every placeholder replaced by the text as it is.
RECURSIVE Substituted(_, _)
Substituted(template, text) ==
    LET i == IndexOf(template, Placeholder)
    IN  IF i = -1 THEN template
        ELSE Slice(template, 0, i) \o text
             \o Substituted(Slice(template, i + Len(Placeholder), Len(template)),
                            text)

\* The text matched at the position a textual finding reports.
MatchedText(file, rule, f) ==
    LET p == PosOf(file.content, f.startLine, f.startColumn)
        n == MatchLen(rule.patterns[1].regex, file.content, p)
    IN  Slice(file.content, p, p + n)

\* C13: every textual finding's message is the rule's template with every
\* {match} replaced by the first 100 characters of the matched text taken
\* verbatim, and its snippet is the first 200 characters of the matched text.
C13_MessageVerbatim ==
    pc = "fm" =>
        \A k \in 1..Len(patternFindings) :
            LET text == MatchedText(files[1], rules[1], patternFindings[k])
            IN  /\ patternFindings[k].message =
                       Substituted(rules[1].message, Slice(text, 0, MessageMax))
                /\ patternFindings[k].snippet = Slice(text, 0, SnippetMax)

\* C14: every finding produced for a document carries the document's path
\* as its file identifier, whichever engine produced it, so two findings of
\* one rule on the same document and start line share one dedup key.
C14_OneFileIdentifier ==
    pc = "dedup" =>
        /\ \A k \in 1..Len(findings) :
              \E f \in 1..Len(files) : findings[k].file = files[f].path
        /\ \A k, l \in 1..Len(findings) :
              (/\ findings[k].ruleId = findings[l].ruleId
               /\ findings[k].startLine = findings[l].startLine
               /\ \E f \in 1..Len(files) :
                     {findings[k].file, findings[l].file}
                         \subseteq {files[f].path, files[f].relativePath})
              => DedupKey(findings[k]) = DedupKey(findings[l])

\* The rules reduced to their patterns of one type; a rule without any is
\* dropped.
RECURSIVE OnlyType(_, _)
OnlyType(rs, type) ==
    IF rs = <<>> THEN <<>>
    ELSE LET IsType(p) == p.type = type
             own == SelectSeq(rs[1].patterns, IsType)
         IN  (IF own = <<>> THEN <<>> ELSE <<[rs[1] EXCEPT !.patterns = own]>>)
             \o OnlyType(Tail(rs), type)

\* C15: analyze returns the textual findings, then the structured-field
\* findings, then the syntax-tree findings, and each engine's list is the one
\* it produces for the rules reduced to the patterns of its own kind: no
\* engine evaluates a pattern of another kind.
C15_RouterConcatenation ==
    pc = "dedup" =>
        findings =
            runPatternRules(files, OnlyType(rules, "regex")).findings
            \o runFrontmatterRules(SelectSeq(files, HasFrontmatterFile),
                                   OnlyType(rules, "frontmatter")).findings
            \o runAstRules(SelectSeq(files, HasLanguageFile),
                           OnlyType(rules, "ast"), grammars).findings

\* A rule mixing the three kinds on a script with front matter: each engine
\* reports it, and the returned list holds the three lists in order.
C15_Witness ==
    /\ pc = "dedup"
    /\ HasPatternOfType(rules[1], "regex")
    /\ HasPatternOfType(rules[1], "frontmatter")
    /\ HasPatternOfType(rules[1], "ast")
    /\ patternFindings # <<>> /\ fmFindings # <<>> /\ astFindings # <<>>
    /\ Len(findings) = Len(patternFindings) + Len(fmFindings) + Len(astFindings)
    /\ findings[1] = patternFindings[1]
    /\ findings[Len(findings)] = astFindings[Len(astFindings)]
    /\ findings[1].file # findings[Len(findings)].file

(***************************************************************************)
(* SpecTwice: the scans of SpecRouter, each run twice in one process.      *)
(***************************************************************************)
SpecTwice == InitRouter /\ [][NextTwice]_vars

\* C16: the second analyze + deduplicate of the same documents and rules in
\* the same process, with the parser cache filled by the first, returns the
\* same ordered list as the first.
C16_SecondRunIdentical ==
    /\ ~raised
    /\ (run = 2 /\ pc \in {"score", "done"}) => deduped = firstRun

\* A second scan that finds the python parser cached and reports
\* syntax-tree findings among others.
C16_Witness ==
    /\ run = 2 /\ pc = "score"
    /\ parserCache.initialized /\ "python" \in parserCache.parsers
    /\ astFindings # <<>> /\ patternFindings # <<>>
    /\ Len(deduped) >= 3
    /\ deduped = firstRun

\* C17: deduplicate applied to its own output returns that output, element
\* for element and in the same order.
C17_Idempotent ==
    pc = "score" => deduplicate(deduped) = deduped

\* An unsorted input with a duplicate key: the first pass changes the list,
\* the second does not.
C17_Witness ==
    /\ pc = "score"
    /\ Len(findings) = 3 /\ Len(deduped) = 2
    /\ deduped # SubSeq(findings, 1, 2)
    /\ deduped[1] = findings[3]
    /\ deduplicate(deduped) = deduped

\* C18: adding any finding to a list, at either end, never raises the score,
\* and the score of the empty list is 100.
C18_ScoreMonotone ==
    pc = "done" =>
        /\ \A sev \in Severities :
              LET f == AFinding(RuleId2, sev, FileA, 1, 1)
              IN  /\ calculateScore(Append(deduped, f)) <= score
                  /\ calculateScore(<<f>> \o deduped) <= score
        /\ deduped = <<>> => score = 100

\* Six critical findings leave 10 points; a seventh takes the score to the
\* floor, an info finding leaves it at 10.
C18_Witness ==
    /\ pc = "done"
    /\ score = 10
    /\ calculateScore(Append(deduped, AFinding(RuleId2, "critical", FileA, 1, 1))) = 0
    /\ calculateScore(Append(deduped, AFinding(RuleId2, "info", FileA, 1, 1))) = 10

(***************************************************************************)
(* SpecDiscover: discoverFiles on a disk of two nodes, as a directory scan *)
(* or with the first node as the single-file target, with and without      *)
(* onlySkills, followed by the scan of the entries it returns.             *)
(***************************************************************************)
OutsideRoot == <<"/", "o">>

NameSkillsLower == SkillsMd

NameSkillsUpper == <<"S", "K", "I", "L", "L", "S", ".", "M", "D">>

NameSkillSingular == SkillMd

NameReadme == <<"R", "E", "A", "D", "M", "E">> \o ExtMd

NameNested == <<"n", "/">> \o SkillsMd

NameInDist == DistDir \o <<"/">> \o SkillsMd

NameDotDot == <<".", ".", "n", "o", "t", "e", "s">> \o ExtMd

NamePng == <<"a">> \o ExtPng

NodeNames ==
    {NameSkillsLower, NameSkillsUpper, NameSkillSingular, NameReadme,
     NameNested, NameInDist, NameDotDot, NamePng}

NodeKinds ==
    {"regular", "atLimit", "tooBig", "linkOut", "linkIn", "dangling",
     "belowLinkedDir"}

Node(rel, kind) ==
    [rel     |-> rel,
     lstat   |-> IF kind \in {"linkOut", "linkIn", "dangling"} THEN "link"
                 ELSE "file",
     real    |-> CASE kind = "dangling" -> <<>>
                   [] kind = "linkIn" -> ScanRoot \o <<"/", "x">> \o ExtMd
                   [] kind \in {"linkOut", "belowLinkedDir"} ->
                          OutsideRoot \o <<"/">> \o rel
                   [] OTHER -> ScanRoot \o <<"/">> \o rel,
     size    |-> CASE kind = "atLimit" -> MAX_FILE_SIZE
                   [] kind = "tooBig" -> MAX_FILE_SIZE + 1
                   [] OTHER -> 1,
     content |-> C]

HasSlash(rel) == IndexOf(rel, <<"/">>) # -1

Nodes ==
    {Node(rel, kind) : rel \in NodeNames, kind \in NodeKinds \ {"belowLinkedDir"}}
    \cup {Node(rel, "belowLinkedDir") : rel \in {r \in NodeNames : HasSlash(r)}}

Neighbours ==
    {Node(NameReadme, "regular"), Node(NameSkillsLower, "regular"),
     Node(NameNested, "regular")}

ScanInputs ==
    {[disk |-> <<n1, n2>>, target |-> t, onlySkills |-> o] :
        n1 \in Nodes, n2 \in Neighbours, t \in {0, 1}, o \in BOOLEAN}

DiscoverRules ==
    <<Rule(RuleId1, "critical", <<RegexPattern(Lit(C), <<>>)>>, FALSE, <<>>,
           <<>>, NoGate, FALSE)>>

InitDiscover ==
    \E input \in ScanInputs :
        /\ input.disk[1].rel # input.disk[2].rel
        /\ input.target = 1 => ~HasSlash(input.disk[1].rel)
        /\ scanInput = input
        /\ engine = NoEngine
        /\ scan = NoScan
        /\ files = <<>>
        /\ rules = DiscoverRules
        /\ grammars = Languages
        /\ patternFindings = <<>>
        /\ fmFindings = <<>>
        /\ astFindings = <<>>
        /\ findings = <<>>
        /\ deduped = <<>>
        /\ score = 100
        /\ raised = FALSE
        /\ parserCache = EmptyCache
        /\ run = 1
        /\ firstRun = <<>>
        /\ pc = "discover"

SpecDiscover == InitDiscover /\ [][NextDiscover]_vars

\* The node of the disk an entry was built from.
NodeOf(entry) ==
    scanInput.disk[CHOOSE k \in 1..Len(scanInput.disk) :
                       scanInput.disk[k].rel = entry.relativePath]

Returned(node) == \E k \in 1..Len(files) : files[k].relativePath = node.rel

RealInside(node) == StartsWithAt(node.real, ScanRoot \o <<"/">>, 0)

\* The node is among the paths the call looks at: listed by the directory
\* walk, or the single-file target itself.
Offered(node) ==
    IF scanInput.target = 0 THEN GlobListed(node)
    ELSE node = scanInput.disk[scanInput.target]

IsSkillsName(rel) == toLowerCase(basename(rel)) \in {SkillsMd, SkillMd}

\* The filters other than the link and real-path ones let the node through.
Eligible(node) ==
    /\ scanInput.onlySkills => IsSkillsName(node.rel)
    /\ extname(node.rel) \notin {ExtPng, ExtLock}
    /\ node.size <= MAX_FILE_SIZE

\* C19: no returned entry is a symbolic link or has its real path outside
\* the scan root, and a regular file with its real path inside the scan root
\* that the other filters let through is returned.
C19_LinksAndOutsideExcluded ==
    pc # "discover" =>
        /\ \A k \in 1..Len(files) :
              NodeOf(files[k]).lstat # "link" /\ RealInside(NodeOf(files[k]))
        /\ \A k \in 1..Len(scanInput.disk) :
              LET node == scanInput.disk[k]
              IN  (Offered(node) /\ Eligible(node) /\ node.lstat = "file"
                     /\ RealInside(node)) => Returned(node)

TrueFmStart == 4

TrueBodyStart(file) == Len(file.content) - Len(file.body)

ScopedTo(rule, loc) == rule.hasInclude /\ rule.include = <<loc>>

\* C21: on a document with front matter, every finding of a body-scoped rule
\* starts on a line of the body, and every finding of a front-matter-scoped
\* rule starts on a line of the front-matter block.
C21_ScopedFindingsInsideBlock ==
    (pc \notin {"pattern", "raised"} /\ files[1].hasFrontmatter) =>
        \A k \in 1..Len(patternFindings) :
            LET f    == patternFindings[k]
                file == files[1]
            IN  f.file = file.path =>
                  /\ ScopedTo(rules[1], "body") =>
                        f.startLine >= LineOf(file.content, TrueBodyStart(file))
                  /\ ScopedTo(rules[1], "frontmatter") =>
                        /\ f.startLine >= LineOf(file.content, TrueFmStart)
                        /\ f.startLine <= LineOf(file.content,
                                                 TrueFmStart + Len(file.rawFrontmatter) - 1)

\* The document a finding names.
FileOf(f) == files[CHOOSE n \in 1..Len(files) : files[n].path = f.file]

\* The finding reports the match of length len at absolute position p.
LocatedAt(f, content, p, len) ==
    /\ f.startLine = 1 + Cardinality({n \in 1..p : content[n] = NL})
    /\ f.startColumn >= 1
    /\ PosOf(content, f.startLine, f.startColumn) = p
    /\ f.snippet = Slice(content, p, p + Min2(len, SnippetMax))
    /\ f.endLine >= f.startLine

SuppressPatternLists ==
    {<<RegexPattern(Lit(C), <<Lit(CCC)>>)>>,
     <<RegexPattern(Lit(C), <<BadRegex>>)>>,
     <<RegexPattern(Lit(C), <<BadRegex, Lit(K)>>)>>,
     <<RegexPattern(Lit(CCC), <<Lit(C)>>), RegexPattern(Lit(C), <<Lit(CCC)>>)>>,
     <<RegexPattern(Star(C), <<Lit(K)>>)>>}

SuppressIncludes == {<<>>, <<"body">>, <<"frontmatter", "body">>}

SuppressRules ==
    {<<Rule(RuleId1, "critical", ps, inc # <<>>, inc, <<>>, NoGate, lim)>> :
        ps \in SuppressPatternLists, inc \in SuppressIncludes, lim \in BOOLEAN}

InitSuppress ==
    \E fs \in TextFiles, rs \in SuppressRules : InitScan(fs, rs, Languages)

SpecSuppress == InitSuppress /\ [][Next]_vars

\* The successive matches of a global regex in a text, from a position on.
RECURSIVE MatchesFrom(_, _, _)
MatchesFrom(re, text, from) ==
    LET m == RegexExec(re, text, from)
    IN  IF m.index = -1 THEN <<>>
        ELSE <<m>> \o MatchesFrom(re, text, Advance(m))

\* Some valid suppressing regex of the pattern matches somewhere in the
\* document line.
LineSuppressed(pattern, content, line) ==
    LET text == SplitLines(content)[line]
    IN  \E e \in 1..Len(pattern.excludePatterns) :
            /\ pattern.excludePatterns[e].kind # "bad"
            /\ \E i \in 0..Len(text) :
                   MatchLen(pattern.excludePatterns[e], text, i) >= 0

\* The matches of one pattern in one region that are not dropped, as
\* (absolute position, matched text).
KeptInRegion(file, pattern, region) ==
    LET all  == MatchesFrom(pattern.regex, region.content, 0)
        Keep(m) == ~LineSuppressed(pattern, file.content,
                                    LineOf(file.content, region.offset + m.index))
        kept == SelectSeq(all, Keep)
    IN  [k \in 1..Len(kept) |->
            [pos  |-> region.offset + kept[k].index,
             text |-> Slice(region.content, kept[k].index,
                            kept[k].index + kept[k].len)]]

\* The same for a rule: pattern by pattern, region by region.
KeptMatches(file, rule) ==
    LET regions == getContentRegions(file, rule)
    IN  Flatten([j \in 1..Len(rule.patterns) |->
            Flatten([r \in 1..Len(regions) |->
                KeptInRegion(file, rule.patterns[j], regions[r])])])

Reported(file, list) ==
    [k \in 1..Len(list) |->
        [pos  |-> PosOf(file.content, list[k].startLine, list[k].startColumn),
         text |-> list[k].snippet]]

EPy1 == buildFileEntry(NamePy, C)

EPy2 == buildFileEntry(<<"d">> \o ExtPy, C \o <<NL>> \o C)

ESh == buildFileEntry(<<"e">> \o ExtSh, C)

EMd == buildFileEntry(NameMd, C)

EngineFiles ==
    {<<EPy1, EPy2>>, <<EPy1, ESh>>, <<ESh, EPy1, EPy2>>, <<EPy1, EMd, EPy2>>,
     <<EPy1, EPy2, ESh>>, <<EMd, ESh>>}

AstOk == AstPattern(TRUE, "c", 1, "")

AstInvalid == AstPattern(FALSE, "c", 1, "")

AstThrows == [AstOk EXCEPT !.query.throws = TRUE]

AstBashOnly == AstPattern(TRUE, "c", 1, "bash")

EngineRuleLists ==
    {<<Rule(RuleId1, "critical", <<AstOk, AstInvalid, AstThrows>>, FALSE, <<>>,
            <<>>, NoGate, FALSE)>>,
     <<Rule(RuleId1, "critical", <<AstOk, AstOk>>, FALSE, <<>>, <<>>, NoGate, TRUE),
       Rule(RuleId2, "high", <<AstThrows, AstBashOnly>>, FALSE, <<>>, <<>>,
            Lit(C), FALSE)>>,
     <<Rule(RuleId1, "critical", <<RegexPattern(Lit(C), <<>>)>>, FALSE, <<>>,
            <<>>, NoGate, FALSE)>>}

EngineGrammars == {Languages, {"bash"}, {"python"}}

InitEngine ==
    \E fs \in EngineFiles, rs \in EngineRuleLists, g \in EngineGrammars,
       second \in {"idle", "start"} :
        /\ files = fs
        /\ rules = rs
        /\ grammars = g
        /\ patternFindings = <<>>
        /\ fmFindings = <<>>
        /\ astFindings = <<>>
        /\ findings = <<>>
        /\ deduped = <<>>
        /\ score = 100
        /\ raised = FALSE
        /\ parserCache = EmptyCache
        /\ run = 1
        /\ firstRun = <<>>
        /\ scanInput = NoScanInput
        /\ engine = [NoEngine EXCEPT !.inv[1].pc = "start", !.inv[2].pc = second]
        /\ scan = NoScan
        /\ pc = "ast"

SpecEngine == InitEngine /\ [][NextEngine]_vars

\* How often a value occurs in a sequence.
Occurrences(seq, x) == Cardinality({k \in 1..Len(seq) : seq[k] = x})

OneScan == engine.inv[2].pc = "idle"

\* The documents whose tree an invocation has parsed.
ParsedBy(i) ==
    {engine.inv[i].st.trace[k].file :
        k \in {n \in 1..Len(engine.inv[i].st.trace) :
                  engine.inv[i].st.trace[n].e = "parse"}}

\* C24: in one scan, a language whose grammar fails to load is loaded at
\* most once and logged at most once, and when the scan returns every
\* document of a language whose grammar loads has been parsed.
C24_FailedGrammarLoggedOnce ==
    OneScan =>
        /\ \A lang \in Languages \ grammars :
              /\ engine.loads[lang] <= 1
              /\ Occurrences(engine.logs, lang) <= 1
        /\ (engine.inv[1].pc = "done" /\ EngineRules # <<>>) =>
              \A f \in 1..Len(files) :
                  files[f].language \in grammars =>
                      files[f].relativePath \in ParsedBy(1)

\* C25: with two invocations the runtime is initialised at most once and
\* every grammar is loaded at most once.
C25_SingleLoad ==
    ~OneScan =>
        /\ engine.inits <= 1
        /\ \A lang \in grammars : engine.loads[lang] <= 1

\* The release discipline on the events of one invocation: a compiled query
\* is deleted next, with at most the logged error in between, and never
\* otherwise; a parsed tree is deleted before the next tree is parsed and
\* after the last query event, and never otherwise.
QueriesReleased(trace) ==
    /\ \A k \in 1..Len(trace) :
          trace[k].e = "compile" =>
              \E d \in {k + 1, k + 2} :
                  /\ d <= Len(trace)
                  /\ trace[d] = [trace[k] EXCEPT !.e = "delete"]
                  /\ d = k + 2 => trace[k + 1] = [trace[k] EXCEPT !.e = "error"]
    /\ Cardinality({k \in 1..Len(trace) : trace[k].e = "compile"})
           = Cardinality({k \in 1..Len(trace) : trace[k].e = "delete"})

TreesReleased(trace) ==
    /\ \A k \in 1..Len(trace) :
          trace[k].e = "parse" =>
              \E d \in (k + 1)..Len(trace) :
                  /\ trace[d] = [trace[k] EXCEPT !.e = "treeDelete"]
                  /\ \A n \in (k + 1)..(d - 1) :
                        /\ trace[n].e \in {"compile", "error", "delete"}
                        /\ trace[n].file = trace[k].file
                  /\ d < Len(trace) => trace[d + 1].e = "parse"
    /\ Cardinality({k \in 1..Len(trace) : trace[k].e = "parse"})
           = Cardinality({k \in 1..Len(trace) : trace[k].e = "treeDelete"})

\* C30: whenever an invocation is suspended or has returned, every tree it
\* parsed has been deleted exactly once, after the queries on that document
\* and before the next parse, and every query it compiled has been deleted
\* exactly once, also when its execution raised.
C30_ResourcesReleased ==
    \A i \in Invocations :
        /\ QueriesReleased(engine.inv[i].st.trace)
        /\ TreesReleased(engine.inv[i].st.trace)

\* A finished scan that parsed three documents and ran, on each, a query
\* that completed, one that did not compile and one whose execution raised.
C30_Witness ==
    /\ OneScan /\ engine.inv[1].pc = "done"
    /\ Cardinality(ParsedBy(1)) = 3
    /\ \E k \in 1..Len(engine.inv[1].st.trace) :
          /\ engine.inv[1].st.trace[k].e = "error"
          /\ engine.inv[1].st.trace[k].query.throws
    /\ \E k \in 1..Len(engine.inv[1].st.trace) :
          /\ engine.inv[1].st.trace[k].e = "error"
          /\ ~engine.inv[1].st.trace[k].query.valid
    /\ Len(engine.inv[1].st.findings) >= 3

(***************************************************************************)
(* SpecContains: scans of one markdown document whose front matter is the  *)
(* single entry "k: <value>" with one structured-field rule whose pattern  *)
(* has a contains condition.                                               *)
(***************************************************************************)
ABC == <<"a", "b", "c">>

ContainsValues ==
    {<<"k", ":", " ">> \o v :
        v \in {ABC, <<"b">>, <<"[">> \o ABC \o <<",", " ", "b", "]">>,
               <<"[">> \o ABC \o <<"]">>,
               <<"[">> \o YamlTrue \o <<",", " ", "c", "]">>,
               <<"[", "]">>, YamlTrue}}
    \cup {<<"k", ":">>, <<"k", ":", NL, " ", " ", "m", ":", " ">> \o ABC}

ContainsFiles ==
    {<<buildFileEntry(NameMd, Dashes \o <<NL>> \o v \o <<NL>> \o Dashes
                              \o <<NL>> \o C)>> : v \in ContainsValues}

ContainsNeedles == {<<"b">>, ABC, YamlTrue, <<"b", "c">>}

ContainsRules ==
    {<<Rule(RuleId1, "high",
            <<[FmPattern(f) EXCEPT !.hasContains = TRUE, !.contains = n]>>,
            FALSE, <<>>, <<>>, NoGate, FALSE)>> :
        f \in {K, <<"k", ".", "0">>, <<"k", ".", "m">>}, n \in ContainsNeedles}

InitContains ==
    \E fs \in ContainsFiles, rs \in ContainsRules : InitScan(fs, rs, Languages)

SpecContains == InitContains /\ [][Next]_vars

IsSubstring(needle, hay) == \E i \in 0..Len(hay) : StartsWithAt(hay, needle, i)

\* C26: a contains condition is satisfied by a string value iff the needle
\* is a substring of it, by an array value iff some element, converted to a
\* string, is the needle, and by no value of another type.
C26_ContainsSubstringOrElement ==
    pc = "ast" =>
        LET pattern == rules[1].patterns[1]
            value   == getNestedField(files[1].frontmatter, pattern.field)
        IN  (fmFindings # <<>>) <=>
                \/ value.t = "str" /\ IsSubstring(pattern.contains, value.v)
                \/ /\ value.t = "arr"
                   /\ \E k \in 1..Len(value.v) :
                          StringOf(value.v[k]) = pattern.contains

(***************************************************************************)
(* SpecFields: scans of the documents of SpecShape with one rule that has  *)
(* up to three structured-field patterns and possibly a textual one.       *)
(***************************************************************************)
FieldA == <<"a">>

FieldMOA == <<"m", ".", "o", ".", "a">>

FieldsPool ==
    <<[FmPattern(FieldA) EXCEPT !.hasExists = TRUE, !.exists = TRUE],
      [FmPattern(FieldMOA) EXCEPT !.hasExists = TRUE, !.exists = TRUE],
      [FmPattern(FieldMOA) EXCEPT !.hasEquals = TRUE,
                                  !.equals = [t |-> "bool", v |-> TRUE]],
      [FmPattern(<<"m", ".", "o">>) EXCEPT !.hasExists = TRUE, !.exists = TRUE],
      RegexPattern(Lit(FieldA), <<>>)>>

FieldsRules ==
    {<<Rule(RuleId1, "high", Pick(FieldsPool, keep, 1), FALSE, <<>>, <<>>,
            NoGate, lim)>> :
        keep \in (SUBSET (1..Len(FieldsPool))) \ {{}}, lim \in BOOLEAN}

InitFields ==
    \E fs \in ShapeFiles, rs \in FieldsRules : InitScan(fs, rs, Languages)

SpecFields == InitFields /\ [][Next]_vars

\* How many findings of the structured-field engine for a rule and a file a
\* list holds.
FieldFindingsIn(list, ruleId, file) ==
    Cardinality({k \in 1..Len(list) :
                    /\ list[k].ruleId = ruleId /\ list[k].file = file
                    /\ \E n \in 1..Len(fmFindings) : fmFindings[n] = list[k]})

\* C27: every structured-field finding is at line 2, column 1, and after
\* deduplicate a rule has at most one structured-field finding per document.
C27_FieldFindingsAtLineTwo ==
    /\ \A k \in 1..Len(fmFindings) :
          /\ fmFindings[k].startLine = 2 /\ fmFindings[k].endLine = 2
          /\ fmFindings[k].startColumn = 1
    /\ pc \in {"score", "done"} =>
          \A f \in 1..Len(files) :
              FieldFindingsIn(deduped, rules[1].id, files[f].path) <= 1

\* A rule without perFileLimit whose patterns on the fields m.o.a, which
\* sits on line 4, and m.o are both satisfied: two different findings at
\* line 2, one of them left by deduplicate.
C27_Witness ==
    /\ pc = "score"
    /\ ~rules[1].perFileLimit
    /\ Len(rules[1].patterns) = 2
    /\ \A j \in 1..2 : rules[1].patterns[j].type = "frontmatter"
    /\ rules[1].patterns[1].field = FieldMOA
    /\ Len(fmFindings) = 2
    /\ fmFindings[1].snippet # fmFindings[2].snippet
    /\ FieldFindingsIn(deduped, rules[1].id, files[1].path) = 1

(***************************************************************************)
(* SpecExclude: scans of the documents of SpecRouter with one rule that    *)
(* has textual, structured-field and syntax-tree patterns and a list of    *)
(* file-exclusion globs.                                                   *)
(***************************************************************************)
ExcludePool ==
    <<RegexPattern(Lit(C), <<>>),
      [FmPattern(K) EXCEPT !.hasExists = TRUE, !.exists = TRUE],
      AstPattern(TRUE, "c", 1, "")>>

ExcludeGlobs ==
    {<<>>, <<<<"*", "*">>>>, <<<<"*">>>>, <<NameMd>>,
     <<ScanRoot \o <<"/", "d">> \o ExtPy>>, <<<<"z">>, NamePy>>}

ExcludeRules ==
    {<<Rule(RuleId1, "critical", Pick(ExcludePool, keep, 1), FALSE, <<>>,
            globs, NoGate, lim)>> :
        keep \in (SUBSET (1..Len(ExcludePool))) \ {{}},
        globs \in ExcludeGlobs, lim \in BOOLEAN}

InitExclude ==
    \E fs \in RouterFiles, rs \in ExcludeRules : InitScan(fs, rs, Languages)

SpecExclude == InitExclude /\ [][Next]_vars

\* Some glob of the list is the document's relative or absolute path, or a
\* wildcard covering it.
PathExcluded(file, globs) ==
    \E i \in 1..Len(globs) :
        \/ globs[i] = <<"*", "*">>
        \/ globs[i] = <<"*">> /\ ~IsSubstring(<<"/">>, file.relativePath)
        \/ globs[i] = file.relativePath
        \/ globs[i] = file.path

\* C28: a document whose path matches one of the rule's exclusion globs has
\* no finding of that rule in what analyze returns, under either of its
\* file identifiers.
C28_ExcludedDocumentsYieldNothing ==
    pc \in {"dedup", "score", "done"} =>
        \A f \in 1..Len(files) :
            PathExcluded(files[f], rules[1].exclude) =>
                \A k \in 1..Len(findings) :
                    findings[k].ruleId = rules[1].id =>
                        findings[k].file \notin {files[f].path, files[f].relativePath}

(***************************************************************************)
(* SpecLoop: single matchRegexInRegion calls on the documents of Spec, for *)
(* patterns that match the empty string and patterns with suppressors.     *)
(***************************************************************************)
LoopPatterns ==
    {RegexPattern(Star(C), <<>>), RegexPattern(Star(C), <<Lit(CCC)>>),
     RegexPattern(Star(<<"c", "c">>), <<Lit(K)>>),
     RegexPattern(Lit(C), <<Lit(CCC)>>)}

LoopRules ==
    {<<Rule(RuleId1, "critical", <<p>>, inc # <<>>, inc, <<>>, NoGate, lim)>> :
        p \in LoopPatterns, inc \in {<<>>, <<"body">>, <<"scripts">>},
        lim \in BOOLEAN}

InitLoop ==
    \E fs \in TextFiles, rs \in LoopRules :
        \E r \in 1..Len(getContentRegions(fs[1], rs[1])) :
            /\ files = fs
            /\ rules = rs
            /\ grammars = Languages
            /\ patternFindings = <<>>
            /\ fmFindings = <<>>
            /\ astFindings = <<>>
            /\ findings = <<>>
            /\ deduped = <<>>
            /\ score = 100
            /\ raised = FALSE
            /\ parserCache = EmptyCache
            /\ run = 1
            /\ firstRun = <<>>
            /\ scanInput = NoScanInput
            /\ engine = NoEngine
            /\ scan = [NoScan EXCEPT !.r = r]
            /\ pc = "exec"

SpecLoop == InitLoop /\ [][NextLoop]_vars

====
